---- MODULE Spec2Model ----
(***************************************************************************)
(* Model of the interactive disease-matching dialogue of COTCAgent         *)
(* (src/cotc_agent_final.py): DiseaseMatcher and COTCAgent, and of the     *)
(* symptom normalizers that canonicalize the knowledge base                *)
(* (src/DS/improved_symptom_normalizer.py, src/DS/symptom_id_normalizer.py).*)
(*                                                                         *)
(* Python strings are modelled as sequences of characters, so that the     *)
(* `in` operator of the source is a real substring test.  A character is   *)
(* written as the pinyin of the Chinese character it stands for, with a    *)
(* gloss where two characters share a reading (shi_is, shi_lose, ...).     *)
(***************************************************************************)
EXTENDS Integers, Sequences, FiniteSets, TLC

(***************************************************************************)
(* Strings                                                                 *)
(***************************************************************************)

\* Python `needle in hay` on strings: needle is a contiguous part of hay.
Contains(hay, needle) ==
    \E i \in 0..(Len(hay) - Len(needle)) :
        \A j \in 1..Len(needle) : hay[i + j] = needle[j]

\* Python `x in list`.
InList(x, list) == \E i \in 1..Len(list) : list[i] = x

RECURSIVE Flatten(_)
\* Concatenation of a sequence of sequences.
Flatten(seqs) ==
    IF seqs = <<>> THEN <<>> ELSE Head(seqs) \o Flatten(Tail(seqs))

\* Symptom names of the knowledge base and of the extraction table.
TouTong     == <<"tou", "tong">>                  \* headache
XiongMen    == <<"xiong", "men">>                 \* chest tightness
XiongTong   == <<"xiong", "tong">>                \* chest pain
ZuGenTong   == <<"zu", "gen", "tong">>            \* heel pain
ZuTong      == <<"zu", "tong">>                   \* foot pain
FuTong      == <<"fu", "tong">>                   \* abdominal pain
FaRe        == <<"fa", "re">>                     \* fever
EXin        == <<"e", "xin">>                     \* nausea
OuTu        == <<"ou", "tu">>                     \* vomiting
TouYun      == <<"tou", "yun_dizzy">>             \* dizziness
ShiMian     == <<"shi_lose", "mian">>             \* insomnia
KeSou       == <<"ke", "sou">>                    \* cough
HuXiKunNan  == <<"hu", "xi_inhale", "kun", "nan">> \* shortness of breath
XinJi       == <<"xin", "ji">>                    \* palpitation
FuXie       == <<"fu", "xie">>                    \* diarrhoea
BianMi      == <<"bian", "mi">>                   \* constipation

\* Colloquial keywords of the extraction table that are not symptom names.
TouTeng      == <<"tou", "teng">>
JiaoHouGenTeng == <<"jiao_foot", "hou", "gen", "teng">>
JiaoTeng     == <<"jiao_foot", "teng">>
DuZiTeng     == <<"du", "zi", "teng">>
FaShao       == <<"fa", "shao">>

\* Affirmation markers and the negation used in answers.
Shi      == <<"shi_is">>
You      == <<"you_have">>
QueShi   == <<"que", "shi_real">>
MeiYou   == <<"mei", "you_have">>

\* Characters of the lifestyle keywords and of the disease names.
YaLi     == <<"ya", "li">>                 \* pressure
JinZhang == <<"jin", "zhang">>             \* tense
JiaoLv   == <<"jiao_worry", "lv">>         \* anxious
GongZuo  == <<"gong", "zuo">>              \* work
YinShi   == <<"yin", "shi_food">>          \* diet
Chi      == <<"chi">>                      \* eat
ShiWu    == <<"shi_food", "wu">>           \* food
YouNi    == <<"you_oil", "ni">>            \* greasy
ShuiMian == <<"shui", "mian">>             \* sleep
ShuiJiao == <<"shui", "jiao_sleep">>       \* sleeping
XiuXi    == <<"xiu", "xi_rest">>           \* rest
YunDong  == <<"yun_move", "dong">>         \* exercise
DuanLian == <<"duan", "lian">>             \* work out
HuoDong  == <<"huo", "dong">>              \* activity
ZouLu    == <<"zou", "lu">>                \* walking
ChangWei == <<"chang", "wei">>             \* stomach and bowels
XiaoHua  == <<"xiao", "hua">>              \* digestion
PianTouTong == <<"pian", "tou", "tong">>   \* migraine
ChangWeiYan == <<"chang", "wei", "yan">>   \* gastroenteritis

(***************************************************************************)
(* Bounds and inputs                                                       *)
(***************************************************************************)

\* Turns (calls of process_user_query / process_user_response) per session.
MaxTurns == 5

\* Turns per session when the utterance of each turn is kept in the state.
MaxHeardTurns == 3

\* An utterance is made of at most MaxPhrases phrases of the phrase book.
MaxPhrases == 2

\* What the patient can say: a negation, an affirmation, a colloquial
\* keyword, and the names of the symptoms of the knowledge base.
PhraseBook == <<MeiYou, You, TouTeng, TouTong, XiongMen>>

RECURSIVE Pick(_, _)
\* The phrases of the phrase book whose index is in `chosen`, in book order.
Pick(chosen, i) ==
    IF i > Len(PhraseBook) THEN <<>>
    ELSE (IF i \in chosen THEN PhraseBook[i] ELSE <<>>) \o Pick(chosen, i + 1)

Utterances ==
    { Pick(chosen, 1) : chosen \in
        { c \in SUBSET (1..Len(PhraseBook)) : Cardinality(c) <= MaxPhrases } }

\* Symptom names that occur in the knowledge bases.
KBSymptoms == {TouTong, XiongMen}

\* The diseases a knowledge base is made of: id and name.
DiseaseCatalog ==
    { [disease_id |-> "D001", disease_name |-> PianTouTong],
      [disease_id |-> "D002", disease_name |-> ChangWeiYan] }

\* Order of the disease ids ("D001" < "D002").
IdRank(id) == IF id = "D001" THEN 1 ELSE 2

\* Lists of distinct symptom names: a disease's symptom list
\* (Disease.canonical_symptoms is a set, kept in declared order).
SymptomLists ==
    { l \in UNION { [1..n -> KBSymptoms] : n \in 1..Cardinality(KBSymptoms) } :
        \A i, j \in 1..Len(l) : i # j => l[i] # l[j] }

\* One record of the knowledge base, as load_disease_database reads it.
DiseaseRecord(d, l) ==
    [disease_id |-> d.disease_id, disease_name |-> d.disease_name,
     symptoms |-> [i \in 1..Len(l) |-> [symptom_name |-> l[i]]]]

\* The knowledge bases: the catalogue's diseases, each at most once, in any
\* stored order, each with any symptom list.
DiseaseDatabases ==
    { <<DiseaseRecord(d, l)>> : d \in DiseaseCatalog, l \in SymptomLists }
    \cup
    { <<DiseaseRecord(p[1], l1), DiseaseRecord(p[2], l2)>> :
        p \in { q \in DiseaseCatalog \X DiseaseCatalog : q[1] # q[2] },
        l1 \in SymptomLists, l2 \in SymptomLists }

(***************************************************************************)
(* DiseaseMatcher                                                          *)
(***************************************************************************)

\* SymptomMatch(symptom_name, is_confirmed=True, confirmation_source,
\* match_confidence=1.0)
SymptomMatch(name, source) ==
    [symptom_name |-> name, is_confirmed |-> TRUE,
     confirmation_source |-> source, match_confidence |-> 1]

\* The entries build_symptom_mapping appends, in the order it appends them:
\* one per (disease, listed symptom with a non-empty name), diseases in
\* stored order.  symptom_mapping[name] is the part with that name.
build_symptom_mapping(db) ==
    SelectSeq(
        Flatten([i \in 1..Len(db) |->
            [j \in 1..Len(db[i].symptoms) |->
                [symptom_name |-> db[i].symptoms[j].symptom_name,
                 disease_id   |-> db[i].disease_id,
                 disease_name |-> db[i].disease_name]]]),
        LAMBDA e : e.symptom_name # <<>>)

\* A lookup that ignores the name: every entry of the mapping is a hit.
symptom_to_diseases_any(db, name) == build_symptom_mapping(db)

\* self.symptom_to_diseases[name] (empty when name is not a key).
symptom_to_diseases(db, name) ==
    SelectSeq(build_symptom_mapping(db), LAMBDA e : e.symptom_name = name)

\* get_disease_symptoms: the symptom names of the first record with this id.
get_disease_symptoms(db, disease_id) ==
    LET found == SelectSeq(db, LAMBDA d : d.disease_id = disease_id)
    IN  IF found = <<>> THEN <<>>
        ELSE [j \in 1..Len(found[1].symptoms) |-> found[1].symptoms[j].symptom_name]

\* The ratio with its operands swapped: total_count / confirmed_count * 100.
match_percentage_swapped(confirmed_count, total_count) ==
    IF confirmed_count > 0 THEN [num |-> total_count * 100, den |-> confirmed_count]
    ELSE [num |-> 0, den |-> 1]

\* match_percentage is confirmed_count / total_count * 100, kept as the exact
\* fraction num / den (den > 0); 0 when the disease lists no symptom.
match_percentage(confirmed_count, total_count) ==
    IF total_count > 0 THEN [num |-> confirmed_count * 100, den |-> total_count]
    ELSE [num |-> 0, den |-> 1]

PctLess(p, q)  == p.num * q.den < q.num * p.den
PctEqual(p, q) == p.num * q.den = q.num * p.den
\* match_percentage >= 100.0
IsPerfect(p)   == p.num >= 100 * p.den

RECURSIVE FirstOccurrences(_)
\* The distinct elements of a sequence in order of first occurrence
\* (the key order of a dict filled in that order).
FirstOccurrences(seq) ==
    IF seq = <<>> THEN <<>>
    ELSE <<Head(seq)>> \o
         FirstOccurrences(SelectSeq(Tail(seq), LAMBDA x : x # Head(seq)))

RECURSIVE InsertByPercentage(_, _)
\* x placed after every element whose match_percentage is not smaller.
InsertByPercentage(sorted, x) ==
    IF sorted = <<>> THEN <<x>>
    ELSE IF PctLess(Head(sorted).match_percentage, x.match_percentage)
         THEN <<x>> \o sorted
         ELSE <<Head(sorted)>> \o InsertByPercentage(Tail(sorted), x)

RECURSIVE SortByPercentage(_, _)
\* list.sort(key=match_percentage, reverse=True): descending and stable.
SortByPercentage(done, todo) ==
    IF todo = <<>> THEN done
    ELSE SortByPercentage(InsertByPercentage(done, Head(todo)), Tail(todo))

\* The (disease, symptom) hits of the first loop of find_potential_diseases,
\* in the order the loop meets them.
ScoreHits(db, confirmed_symptoms) ==
    Flatten([k \in 1..Len(confirmed_symptoms) |->
        IF confirmed_symptoms[k].is_confirmed
        THEN symptom_to_diseases(db, confirmed_symptoms[k].symptom_name)
        ELSE <<>>])

\* disease_scores of find_potential_diseases as a list of DiseaseMatchProgress
\* in dict order (before the sort).
DiseaseScores(db, confirmed_symptoms) ==
    LET hits  == ScoreHits(db, confirmed_symptoms)
        ids   == FirstOccurrences([h \in 1..Len(hits) |-> hits[h].disease_id])
        Progress(id) ==
            LET mine      == SelectSeq(hits, LAMBDA h : h.disease_id = id)
                confirmed == [h \in 1..Len(mine) |-> mine[h].symptom_name]
                all       == get_disease_symptoms(db, id)
            IN  [disease_id         |-> id,
                 disease_name       |-> mine[1].disease_name,
                 total_symptoms     |-> Len(all),
                 confirmed_symptoms |-> Len(confirmed),
                 match_percentage   |-> match_percentage(Len(confirmed), Len(all)),
                 missing_symptoms   |->
                     SelectSeq(all, LAMBDA x : ~InList(x, confirmed)),
                 lifestyle_factors  |-> <<>>,
                 current_questions  |-> <<>>]
    IN  [n \in 1..Len(ids) |-> Progress(ids[n])]

\* DiseaseMatcher.find_potential_diseases
find_potential_diseases(db, confirmed_symptoms) ==
    SortByPercentage(<<>>, DiseaseScores(db, confirmed_symptoms))

(***************************************************************************)
(* COTCAgent                                                               *)
(***************************************************************************)

\* self.current_analysis_step, set in __init__ and never advanced.
current_analysis_step == 0

\* self.max_verification_rounds
max_verification_rounds == 5

\* The keyword table of extract_and_confirm_symptoms, in dict order.
symptom_mapping ==
    << [user_symptom |-> TouTeng,        medical_symptoms |-> <<TouTong>>],
       [user_symptom |-> TouTong,        medical_symptoms |-> <<TouTong>>],
       [user_symptom |-> XiongMen,       medical_symptoms |-> <<XiongMen>>],
       [user_symptom |-> XiongTong,      medical_symptoms |-> <<XiongTong>>],
       [user_symptom |-> JiaoHouGenTeng, medical_symptoms |-> <<ZuGenTong>>],
       [user_symptom |-> JiaoTeng,       medical_symptoms |-> <<ZuTong>>],
       [user_symptom |-> FuTong,         medical_symptoms |-> <<FuTong>>],
       [user_symptom |-> DuZiTeng,       medical_symptoms |-> <<FuTong>>],
       [user_symptom |-> FaRe,           medical_symptoms |-> <<FaRe>>],
       [user_symptom |-> FaShao,         medical_symptoms |-> <<FaRe>>],
       [user_symptom |-> EXin,           medical_symptoms |-> <<EXin>>],
       [user_symptom |-> OuTu,           medical_symptoms |-> <<OuTu>>],
       [user_symptom |-> TouYun,         medical_symptoms |-> <<TouYun>>],
       [user_symptom |-> ShiMian,        medical_symptoms |-> <<ShiMian>>],
       [user_symptom |-> KeSou,          medical_symptoms |-> <<KeSou>>],
       [user_symptom |-> HuXiKunNan,     medical_symptoms |-> <<HuXiKunNan>>],
       [user_symptom |-> XinJi,          medical_symptoms |-> <<XinJi>>],
       [user_symptom |-> FuXie,          medical_symptoms |-> <<FuXie>>],
       [user_symptom |-> BianMi,         medical_symptoms |-> <<BianMi>>] >>

\* [s.symptom_name for s in patient_profile.confirmed_symptoms if s.is_confirmed]
ConfirmedNames(profile) ==
    LET c == SelectSeq(profile.confirmed_symptoms, LAMBDA m : m.is_confirmed)
    IN  [i \in 1..Len(c) |-> c[i].symptom_name]

\* extract_and_confirm_symptoms looking for the medical name in the input
\* instead of the keyword.
extract_and_confirm_symptoms_by_name(user_input, profile) ==
    Flatten([e \in 1..Len(symptom_mapping) |->
        LET fresh ==
              SelectSeq(symptom_mapping[e].medical_symptoms,
                  LAMBDA m : /\ Contains(user_input, m)
                             /\ ~\E k \in 1..Len(profile.confirmed_symptoms) :
                                    profile.confirmed_symptoms[k].symptom_name = m)
        IN  [i \in 1..Len(fresh) |-> SymptomMatch(fresh[i], "user_input")]])

\* COTCAgent.extract_and_confirm_symptoms: for every keyword found in the
\* input, its medical symptoms that the profile (as it is before this turn)
\* does not hold yet.
extract_and_confirm_symptoms(user_input, profile) ==
    Flatten([e \in 1..Len(symptom_mapping) |->
        IF Contains(user_input, symptom_mapping[e].user_symptom)
        THEN LET fresh ==
                   SelectSeq(symptom_mapping[e].medical_symptoms,
                       LAMBDA m : ~\E k \in 1..Len(profile.confirmed_symptoms) :
                                      profile.confirmed_symptoms[k].symptom_name = m)
             IN  [i \in 1..Len(fresh) |-> SymptomMatch(fresh[i], "user_input")]
        ELSE <<>>])

\* seq[:n]
Take(seq, n) == SubSeq(seq, 1, IF Len(seq) < n THEN Len(seq) ELSE n)

\* COTCAgent.generate_targeted_questions: a question is [about, symptom].
generate_targeted_questions(focus_disease) ==
    LET name == focus_disease.disease_name
        important_missing == Take(focus_disease.missing_symptoms, 1)
        asked == [i \in 1..Len(important_missing) |->
                     [about |-> "symptom", symptom |-> important_missing[i]]]
        lifestyle ==
            IF Contains(name, ChangWei) \/ Contains(name, XiaoHua) THEN "diet"
            ELSE IF Contains(name, TouTong) \/ Contains(name, PianTouTong) THEN "stress"
            ELSE IF Contains(name, ShiMian) \/ Contains(name, ShuiMian) THEN "sleep"
            ELSE "habits"
    IN  Take(asked \o <<[about |-> lifestyle, symptom |-> <<>>]>>, 2)

\* COTCAgent.generate_lifestyle_advice
generate_lifestyle_advice(lifestyle_factors) ==
    SelectSeq(<<"stress", "diet", "sleep", "exercise">>,
              LAMBDA f : f \in DOMAIN lifestyle_factors)

\* COTCAgent.generate_final_diagnosis
generate_final_diagnosis(disease, profile) ==
    [status        |-> "diagnosis_complete",
     analysis_step |-> current_analysis_step,
     diagnosis     |-> << [disease_name       |-> disease.disease_name,
                           confidence         |-> "high",
                           match_percentage   |-> disease.match_percentage,
                           confirmed_symptoms |-> ConfirmedNames(profile)] >>,
     focus_disease |-> <<>>,
     questions     |-> <<>>,
     lifestyle_advice |-> generate_lifestyle_advice(profile.lifestyle_factors)]

\* A no_matches response that asks nothing.
generic_questions_none == <<>>

\* The questions of the no_matches response: describe the symptoms in more
\* detail, when they began, how severe they are.
generic_questions ==
    << [about |-> "describe", symptom |-> <<>>],
       [about |-> "onset",    symptom |-> <<>>],
       [about |-> "severity", symptom |-> <<>>] >>

\* COTCAgent.generate_verification_questions: the response it returns.
generate_verification_questions(disease_progress, profile) ==
    IF disease_progress # <<>>
    THEN LET focus_disease == disease_progress[1]
         IN  IF IsPerfect(focus_disease.match_percentage)
             THEN generate_final_diagnosis(focus_disease, profile)
             ELSE [status        |-> "verification_needed",
                   analysis_step |-> current_analysis_step,
                   diagnosis     |-> <<>>,
                   focus_disease |-> <<
                       [disease_id         |-> focus_disease.disease_id,
                        disease_name       |-> focus_disease.disease_name,
                        match_percentage   |-> focus_disease.match_percentage,
                        confirmed_symptoms |-> ConfirmedNames(profile),
                        missing_symptoms   |-> Take(focus_disease.missing_symptoms, 3),
                        total_symptoms     |-> focus_disease.total_symptoms] >>,
                   questions     |-> generate_targeted_questions(focus_disease),
                   lifestyle_advice |-> <<>>]
    ELSE [status        |-> "no_matches",
          analysis_step |-> current_analysis_step,
          diagnosis     |-> <<>>,
          focus_disease |-> <<>>,
          questions     |-> generic_questions,
          lifestyle_advice |-> <<>>]

\* self.current_disease_focus after generate_verification_questions: set to
\* the first entry when there is one, else left as it was.
FocusAfterQuestions(disease_progress, old_focus) ==
    IF disease_progress # <<>> THEN <<disease_progress[1]>> ELSE old_focus

\* The affirmation test of analyze_user_response.
IsAffirmed(user_response) ==
    \/ Contains(user_response, Shi)
    \/ Contains(user_response, You)
    \/ Contains(user_response, QueShi)

\* analyze_user_response without the affirmation test: naming is confirming.
analyze_user_response_unaffirmed(user_response, focus) ==
    IF focus = <<>> THEN <<>>
    ELSE LET named == SelectSeq(focus[1].missing_symptoms,
                          LAMBDA m : Contains(user_response, m))
         IN  [i \in 1..Len(named) |-> SymptomMatch(named[i], "user_confirmation")]

\* COTCAgent.analyze_user_response, the confirmations it returns: the
\* missing symptoms of the current focus that the response names, when the
\* response holds an affirmation marker.
analyze_user_response(user_response, focus) ==
    IF focus = <<>> THEN <<>>
    ELSE LET named == SelectSeq(focus[1].missing_symptoms,
                          LAMBDA m : Contains(user_response, m) /\ IsAffirmed(user_response))
         IN  [i \in 1..Len(named) |-> SymptomMatch(named[i], "user_confirmation")]

\* The lifestyle keyword table of analyze_user_response.
lifestyle_keywords ==
    [stress   |-> {YaLi, JinZhang, JiaoLv, GongZuo},
     diet     |-> {YinShi, Chi, ShiWu, YouNi},
     sleep    |-> {ShuiMian, ShuiJiao, ShiMian, XiuXi},
     exercise |-> {YunDong, DuanLian, HuoDong, ZouLu}]

\* patient_profile.lifestyle_factors after analyze_user_response: every
\* factor with a keyword in the response is set to the response.
LifestyleAfterResponse(user_response, lifestyle_factors) ==
    LET hit == { f \in DOMAIN lifestyle_keywords :
                   \E k \in lifestyle_keywords[f] : Contains(user_response, k) }
    IN  [f \in (DOMAIN lifestyle_factors) \cup hit |->
            IF f \in hit THEN user_response ELSE lifestyle_factors[f]]

(***************************************************************************)
(* State: one agent serving one session over one patient profile           *)
(***************************************************************************)
VARIABLES
    disease_db,             \* DiseaseMatcher.disease_db, read-only after load
    patient_profile,        \* PatientProfile: confirmed_symptoms, lifestyle_factors
    current_disease_focus,  \* COTCAgent.current_disease_focus: <<>> is None
    verification_round,     \* COTCAgent.verification_round
    result,                 \* the Dict the last turn returned
    user_input,             \* the utterance of the last turn (kept by SpecHeard)
    turns,                  \* number of turns made so far in the session
    db_file                 \* what open/json.load of disease_db_path met

\* State of one ImprovedSymptomNormalizer / SymptomNormalizer, of the name it
\* is normalizing and of the knowledge base it is building.
VARIABLES
    semantic_groups,        \* self.semantic_groups: the table, in declared order
    symptom_name,           \* the raw name given to _normalize_symptom_name
    normalized_name,        \* what it returned: <<>> before the call
    renormalized_name,      \* what it returned for its own result: <<>> before
    unified_symptom_ids,    \* self.unified_symptom_ids in insertion order
    symptom_index,          \* self.symptom_to_diseases, entries in append order
    updated_diseases,       \* the knowledge base normalize_disease_data returned
    reverse_mapping,        \* what create_reverse_mapping returned: <<>> before
    builds,                 \* number of normalize_disease_data calls so far
    input_diseases          \* main's diseases_data, as read from the input file

\* A second session served by the same agent, over its own PatientProfile,
\* and the first session as it goes on an agent of its own.
VARIABLES
    other_session,          \* patient_profile and turns of the second session
    alone                   \* patient_profile, current_disease_focus and result
                            \* of the first session on an agent that serves only it

\* The DiseaseMatcher of cotc_agent_enhanced.py over the same knowledge base.
VARIABLES
    current_symptoms,       \* PatientProfile.current_symptoms
    disease_risks           \* what calculate_disease_probability returned

\* ParallelDiseaseSymptomProcessor.process_diseases_parallel and the batch
\* files of its working directory.
VARIABLES
    all_diseases,           \* the disease ids of the input file, in file order
    batch_size,             \* the batch_size argument
    batch_files,            \* batch number -> disease ids of batch_NNN_processed_diseases.json
    remaining_diseases,     \* remaining_diseases of the run
    batch_start,            \* the loop variable i
    run_state,              \* "idle", "running", "interrupted" or "completed"
    runs                    \* number of runs started so far

\* ParallelDiseaseSymptomProcessor: the worker threads of one batch, one
\* call_deepseek_api call, and the file merge_batch_files writes.
VARIABLES
    futures,                \* future_to_disease: per disease of the batch, where its worker is
    batch_results,          \* batch_results of the round
    api_call,               \* the attempts, waits and outcome of one call_deepseek_api call
    merged_file             \* the output file of merge_batch_files, <<>> while not written

\* COTCAgent of cotc_agent.py: generated code and its temporary files.
VARIABLES
    save_temp_files,        \* DeepSeekConfig.save_temp_files
    temp_files,             \* the temporary files that exist
    files_created,          \* number of NamedTemporaryFile calls so far
    analysis                \* outcome of the last process_user_query call

agent_vars == <<disease_db, patient_profile, current_disease_focus,
                verification_round, result, user_input, turns, db_file>>

session_vars == <<other_session, alone>>

risk_vars == <<current_symptoms, disease_risks>>

batch_vars == <<all_diseases, batch_size, batch_files, remaining_diseases,
                batch_start, run_state, runs>>

code_vars == <<save_temp_files, temp_files, files_created, analysis>>

pipeline_vars == <<futures, batch_results, api_call, merged_file>>

tool_vars == <<risk_vars, batch_vars, code_vars, pipeline_vars>>

normalizer_vars == <<semantic_groups, symptom_name, normalized_name,
                     renormalized_name, unified_symptom_ids, symptom_index,
                     updated_diseases, reverse_mapping, builds, input_diseases>>

vars == <<agent_vars, session_vars, normalizer_vars, tool_vars>>

\* A new PatientProfile with no confirmed symptom.
NewPatientProfile ==
    [confirmed_symptoms |-> <<>>, lifestyle_factors |-> [f \in {} |-> <<>>]]

\* No turn has returned yet.
NoResult ==
    [status |-> "none", analysis_step |-> current_analysis_step,
     diagnosis |-> <<>>, focus_disease |-> <<>>,
     questions |-> <<>>, lifestyle_advice |-> <<>>]

\* An agent that has served no turn.
IdleAgent ==
    /\ patient_profile = NewPatientProfile
    /\ current_disease_focus = <<>>
    /\ verification_round = 0
    /\ result = NoResult
    /\ user_input = <<>>
    /\ turns = 0

\* The agent serves one session only.
NoSessions ==
    /\ other_session = [patient_profile |-> NewPatientProfile, turns |-> 0]
    /\ alone = [patient_profile |-> NewPatientProfile,
                current_disease_focus |-> <<>>, result |-> NoResult]

\* No disease probability has been asked for.
NoRisks ==
    /\ current_symptoms = <<>>
    /\ disease_risks = <<>>

\* No batch processing: no input, no batch file.
NoBatches ==
    /\ all_diseases = <<>>
    /\ batch_size = 1
    /\ batch_files = <<>>
    /\ remaining_diseases = <<>>
    /\ batch_start = 0
    /\ run_state = "idle"
    /\ runs = 0

\* No code has been generated.
NoGeneratedCode ==
    /\ save_temp_files = FALSE
    /\ temp_files = {}
    /\ files_created = 0
    /\ analysis = [status |-> "none", temporal_analysis |-> "none",
                   detailed_analysis |-> "none", temp_file_paths |-> {}]

\* No worker thread, no API call, no merge.
NoPipeline ==
    /\ futures = <<>>
    /\ batch_results = <<>>
    /\ api_call = <<>>
    /\ merged_file = <<>>

NoTools == NoRisks /\ NoBatches /\ NoGeneratedCode /\ NoPipeline

\* No normalizer has been constructed: the agent reads a knowledge base that
\* is already canonicalized.
NoNormalizer ==
    /\ semantic_groups = <<>>
    /\ symptom_name = <<>>
    /\ normalized_name = <<>>
    /\ renormalized_name = <<>>
    /\ unified_symptom_ids = <<>>
    /\ symptom_index = <<>>
    /\ updated_diseases = <<>>
    /\ reverse_mapping = <<>>
    /\ builds = 0
    /\ input_diseases = <<>>

\* COTCAgent.__init__ and a new PatientProfile with no confirmed symptom.
Init ==
    /\ disease_db \in DiseaseDatabases
    /\ patient_profile = [confirmed_symptoms |-> <<>>,
                          lifestyle_factors  |-> [f \in {} |-> <<>>]]
    /\ current_disease_focus = <<>>
    /\ verification_round = 0
    /\ result = [status |-> "none", analysis_step |-> current_analysis_step,
                 diagnosis |-> <<>>, focus_disease |-> <<>>,
                 questions |-> <<>>, lifestyle_advice |-> <<>>]
    /\ user_input = <<>>
    /\ turns = 0
    /\ db_file = "ok"
    /\ NoSessions
    /\ NoNormalizer
    /\ NoTools

\* Assignment in place of extend: the list becomes the new items.
extend_overwriting(list, items) == items

\* list.extend(items)
extend(list, items) == list \o items

\* Steps 3 and 4 shared by process_user_query and process_user_response:
\* score the diseases, answer with the first perfect match if there is one,
\* else with the verification questions (which also move the focus).
Decide(profile) ==
    LET disease_progress ==
            find_potential_diseases(disease_db, profile.confirmed_symptoms)
        perfect_matches ==
            SelectSeq(disease_progress, LAMBDA d : IsPerfect(d.match_percentage))
    IN  IF perfect_matches # <<>>
        THEN /\ result' = generate_final_diagnosis(perfect_matches[1], profile)
             /\ UNCHANGED current_disease_focus
        ELSE /\ result' = generate_verification_questions(disease_progress, profile)
             /\ current_disease_focus' =
                    FocusAfterQuestions(disease_progress, current_disease_focus)

\* COTCAgent.process_user_query: the first turn of the session.
process_user_query(input) ==
    /\ turns = 0
    /\ LET new_symptoms == extract_and_confirm_symptoms(input, patient_profile)
           profile == [patient_profile EXCEPT
                          !.confirmed_symptoms = extend(@, new_symptoms)]
       IN  /\ patient_profile' = profile
           /\ Decide(profile)
    /\ turns' = turns + 1
    /\ UNCHANGED <<disease_db, verification_round, db_file, normalizer_vars, tool_vars>>

\* COTCAgent.process_user_response: every later turn of the session.
process_user_response(user_response) ==
    /\ turns >= 1
    /\ turns < MaxTurns
    /\ LET new_confirmations ==
               analyze_user_response(user_response, current_disease_focus)
           profile ==
               [confirmed_symptoms |->
                    extend(patient_profile.confirmed_symptoms, new_confirmations),
                lifestyle_factors  |->
                    LifestyleAfterResponse(user_response,
                                           patient_profile.lifestyle_factors)]
       IN  /\ patient_profile' = profile
           /\ Decide(profile)
    /\ turns' = turns + 1
    /\ UNCHANGED <<disease_db, verification_round, db_file, normalizer_vars, tool_vars>>

\* A session in which only the agent's and the profile's state is followed.
ProcessUserQuery ==
    \E input \in Utterances :
        process_user_query(input) /\ UNCHANGED <<user_input, session_vars>>

ProcessUserResponse ==
    \E user_response \in Utterances :
        process_user_response(user_response) /\ UNCHANGED <<user_input, session_vars>>

Next == ProcessUserQuery \/ ProcessUserResponse

Spec == Init /\ [][Next]_vars

\* A session in which the utterance of each turn is also kept, for the
\* properties that relate a turn's outcome to what the patient said.
HeardUserQuery ==
    \E input \in Utterances :
        process_user_query(input) /\ user_input' = input /\ UNCHANGED session_vars

HeardUserResponse ==
    \E user_response \in Utterances :
        /\ turns < MaxHeardTurns
        /\ process_user_response(user_response)
        /\ user_input' = user_response
        /\ UNCHANGED session_vars

NextHeard == HeardUserQuery \/ HeardUserResponse

SpecHeard == Init /\ [][NextHeard]_vars

\* What the patient can answer when the answer may also mention stress.
Replies == Utterances \cup { u \o YaLi : u \in Utterances }

\* A session in which the utterance is kept and a follow-up answer may hold
\* a lifestyle keyword, for the properties about lifestyle_factors.
ToldUserResponse ==
    \E user_response \in Replies :
        /\ turns < MaxHeardTurns
        /\ process_user_response(user_response)
        /\ user_input' = user_response
        /\ UNCHANGED session_vars

NextTold == HeardUserQuery \/ ToldUserResponse

SpecTold == Init /\ [][NextTold]_vars

(***************************************************************************)
(* Vocabulary of the properties                                            *)
(***************************************************************************)

\* Elements of a sequence.
Range(seq) == { seq[i] : i \in 1..Len(seq) }

\* The names of the patient's confirmed symptoms, as a set.
ConfirmedSet == Range(ConfirmedNames(patient_profile))

\* The symptoms a stored disease lists, as a set.
ListedSymptoms(d) == { d.symptoms[j].symptom_name : j \in 1..Len(d.symptoms) }

\* The symptom names known to the knowledge base.
KnownSymptomNames == UNION { ListedSymptoms(disease_db[i]) : i \in 1..Len(disease_db) }

\* The missing symptoms of the focus disease the last questions were about.
FocusMissing ==
    IF current_disease_focus = <<>> THEN {}
    ELSE Range(current_disease_focus[1].missing_symptoms)

\* The outcomes: diagnosed, inconclusive, awaiting confirmation.
IsDiagnosed(r)    == r.status = "diagnosis_complete"
IsInconclusive(r) == r.status = "no_matches"
IsAwaiting(r)     == r.status = "verification_needed"

\* The name of the diagnosed disease, <<>> when the response is no diagnosis.
DiagnosedName(r) == IF r.diagnosis = <<>> THEN <<>> ELSE r.diagnosis[1].disease_name

\* prefix is an initial part of seq.
IsPrefix(prefix, seq) ==
    /\ Len(prefix) <= Len(seq)
    /\ SubSeq(seq, 1, Len(prefix)) = prefix

(***************************************************************************)
(* ImprovedSymptomNormalizer and SymptomNormalizer                          *)
(* (src/DS/improved_symptom_normalizer.py, src/DS/symptom_id_normalizer.py) *)
(***************************************************************************)

\* Raw symptom names are made of at most MaxNameLen characters.
MaxNameLen == 3

\* The characters of a raw name: three ideographs, an underscore, a space
\* and a Latin letter.
NameAlphabet == {"pian", "tou", "tong", "_", " ", "a"}

\* Raw names: every string over the alphabet, the empty one included.
RawNames == UNION { [1..n -> NameAlphabet] : n \in 0..MaxNameLen }

\* The head-pain groups of ImprovedSymptomNormalizer, the first four of its
\* table, in declared order.  A name over NameAlphabet or a variant of
\* these groups is matched by no later group before one of these.
_create_detailed_semantic_groups ==
    << [standard_name |-> TouTong,
        variants |-> << TouTong, TouTeng,
                        <<"tou", "bu", "teng", "tong">>,
                        <<"tou", "zhang_swell", "tong">>,
                        <<"tou", "bu", "zhang_swell", "tong">> >>],
       [standard_name |-> PianTouTong,
        variants |-> << PianTouTong,
                        <<"pian", "ce", "tou", "tong">>,
                        <<"dan", "ce", "tou", "tong">>,
                        <<"bo", "dong", "xing", "tou", "tong">> >>],
       [standard_name |-> <<"lu_skull", "nei", "ya", "zeng", "gao", "xing", "tou", "tong">>,
        variants |-> << <<"lu_skull", "nei", "ya", "zeng", "gao">>,
                        <<"lu_skull", "ya", "zeng", "gao">>,
                        <<"nao", "ya", "zeng", "gao", "tou", "tong">> >>],
       [standard_name |-> <<"jin", "zhang", "xing", "tou", "tong">>,
        variants |-> << <<"jin", "zhang", "xing", "tou", "tong">>,
                        <<"jin", "zhang", "xing_type", "tou", "tong">>,
                        <<"ya", "po", "xing", "tou", "tong">> >>] >>

\* The pain groups of SymptomNormalizer, the first two of its table, in
\* declared order.
_create_semantic_groups ==
    << [standard_name |-> <<"teng", "tong">>,
        variants |-> << <<"teng", "tong">>, <<"tong">>, <<"teng">>,
                        <<"suan", "tong">>, <<"ci", "tong">>,
                        <<"zhang_swell", "tong">>, <<"yin_dull", "tong">>,
                        <<"dun", "tong">>, <<"ju", "tong">>,
                        <<"ju", "lie", "teng", "tong">> >>],
       [standard_name |-> TouTong,
        variants |-> << TouTong, TouTeng, PianTouTong,
                        <<"tou", "bu", "teng", "tong">>,
                        <<"lu_skull", "nei", "ya", "zeng", "gao">>,
                        <<"tou", "zhang_swell", "tong">> >>] >>

\* \w of the pattern: every character but white space and punctuation; the
\* underscore is a word character.
IsWordCharacter(c) == c # " "

\* 一-鿿 of the pattern: the ideographs.
IsIdeograph(c) == c \notin {" ", "_", "a"}

\* re.sub(r'[^\w一-鿿]', '', symptom_name)
cleaned_name(name) ==
    SelectSeq(name, LAMBDA c : IsWordCharacter(c) \/ IsIdeograph(c))

\* The groups with a variant that is part of the cleaned name or that the
\* cleaned name is part of, in declared order.
MatchingGroups(cleaned) ==
    SelectSeq(semantic_groups,
              LAMBDA g : \E k \in 1..Len(g.variants) :
                  Contains(cleaned, g.variants[k]) \/ Contains(g.variants[k], cleaned))

\* ImprovedSymptomNormalizer._normalize_symptom_name (the same code as
\* SymptomNormalizer._normalize_symptom_name): the first matching group's
\* standard name, else the cleaned name.
_normalize_symptom_name(name) ==
    LET matching == MatchingGroups(cleaned_name(name))
    IN  IF matching # <<>> THEN matching[1].standard_name ELSE cleaned_name(name)

\* The variants the table lists.
TableVariants(groups) ==
    UNION { Range(groups[g].variants) : g \in 1..Len(groups) }

\* No agent is running while a knowledge base is normalized.
NoAgent ==
    /\ disease_db = <<>>
    /\ patient_profile = [confirmed_symptoms |-> <<>>,
                          lifestyle_factors  |-> [f \in {} |-> <<>>]]
    /\ current_disease_focus = <<>>
    /\ verification_round = 0
    /\ result = [status |-> "none", analysis_step |-> current_analysis_step,
                 diagnosis |-> <<>>, focus_disease |-> <<>>,
                 questions |-> <<>>, lifestyle_advice |-> <<>>]
    /\ user_input = <<>>
    /\ turns = 0
    /\ db_file = "ok"
    /\ NoSessions
    /\ NoTools

\* A normalizer of either class, and a raw name to normalize: any raw name
\* or any variant of its table.
InitNormalize ==
    /\ NoAgent
    /\ semantic_groups \in {_create_detailed_semantic_groups, _create_semantic_groups}
    /\ symptom_name \in RawNames \cup TableVariants(semantic_groups)
    /\ normalized_name = <<>>
    /\ renormalized_name = <<>>
    /\ unified_symptom_ids = <<>>
    /\ symptom_index = <<>>
    /\ updated_diseases = <<>>
    /\ reverse_mapping = <<>>
    /\ builds = 0
    /\ input_diseases = <<>>

\* normalized = _normalize_symptom_name(symptom_name)
NormalizeSymptomName ==
    /\ normalized_name = <<>>
    /\ normalized_name' = <<_normalize_symptom_name(symptom_name)>>
    /\ UNCHANGED <<agent_vars, session_vars, tool_vars, semantic_groups, symptom_name, renormalized_name,
                   unified_symptom_ids, symptom_index, updated_diseases,
                   reverse_mapping, builds, input_diseases>>

\* _normalize_symptom_name(normalized): the result normalized once more.
NormalizeNormalizedName ==
    /\ normalized_name # <<>>
    /\ renormalized_name = <<>>
    /\ renormalized_name' = <<_normalize_symptom_name(normalized_name[1])>>
    /\ UNCHANGED <<agent_vars, session_vars, tool_vars, semantic_groups, symptom_name, normalized_name,
                   unified_symptom_ids, symptom_index, updated_diseases,
                   reverse_mapping, builds, input_diseases>>

NextNormalize == NormalizeSymptomName \/ NormalizeNormalizedName

SpecNormalize == InitNormalize /\ [][NextNormalize]_vars

\* normalize_disease_data is called at most MaxBuilds times on a normalizer.
MaxBuilds == 2

\* A disease of a corpus lists at most MaxRecords symptom records.
MaxRecords == 2

\* What dict.get returns for a key the record does not have.
None == "None"

\* Two names of no semantic group, "kot" and "bwma": they normalize to
\* themselves.
Kot == <<"k", "o", "t">>
Bwma == <<"b", "w", "m", "a">>

GanMao == <<"gan", "mao">>

\* The symptom records of the corpora, each with the symptom_id of the raw
\* file: two variants of one group, the second marked specific, the empty
\* name, and the two names of no group.
CorpusRecords ==
    << [symptom_name |-> TouTong, specificity |-> FALSE, symptom_id |-> "S1"],
       [symptom_name |-> TouTeng, specificity |-> TRUE,  symptom_id |-> "S2"],
       [symptom_name |-> <<>>,    specificity |-> FALSE, symptom_id |-> "S3"],
       [symptom_name |-> Kot,     specificity |-> FALSE, symptom_id |-> "S4"],
       [symptom_name |-> Bwma,    specificity |-> FALSE, symptom_id |-> "S5"] >>

\* The symptom lists of a disease of a corpus: one to MaxRecords of the
\* records, in the order above.
RecordLists ==
    { [k \in 1..Len(m) |-> CorpusRecords[m[k]]] :
        m \in { l \in UNION { [1..n -> 1..Len(CorpusRecords)] : n \in 1..MaxRecords } :
                  \A i, j \in 1..Len(l) : i < j => l[i] < l[j] } }

\* The diseases of the corpora: two complete records and one whose record
\* has no disease id.
RawCatalog ==
    << [disease_id |-> "D001", disease_name |-> PianTouTong],
       [disease_id |-> "D002", disease_name |-> ChangWeiYan],
       [disease_id |-> None,   disease_name |-> GanMao] >>

\* One raw disease record: disease.get of its id and name, and its symptom
\* list.
RawDisease(d, l) ==
    [disease_id |-> d.disease_id, disease_name |-> d.disease_name, symptoms |-> l]

\* diseases_data: one or two diseases of the catalogue, in catalogue order.
Corpora ==
    { <<RawDisease(RawCatalog[i], l)>> : i \in 1..Len(RawCatalog), l \in RecordLists }
    \cup
    { <<RawDisease(RawCatalog[p[1]], l1), RawDisease(RawCatalog[p[2]], l2)>> :
        p \in { q \in (1..Len(RawCatalog)) \X (1..Len(RawCatalog)) : q[1] < q[2] },
        l1 \in RecordLists, l2 \in RecordLists }

\* _generate_symptom_id: "SYM_" and the first 8 hexadecimal digits, in upper
\* case, of the MD5 of the name, for the names the corpora normalize to
\* and the standard names of the table.
_generate_symptom_id(name) ==
    CASE name = TouTong                -> "SYM_4A41D991"
      [] name = <<"teng", "tong">>     -> "SYM_7170BD6B"
      [] name = <<"tou", "_", "tong">> -> "SYM_5DE971EF"
      [] name = Kot                    -> "SYM_A986D9EE"
      [] name = Bwma                   -> "SYM_A986D9EE"
      [] name = PianTouTong            -> "SYM_D7307963"
      [] name = <<"lu_skull", "nei", "ya", "zeng", "gao", "xing", "tou", "tong">>
                                       -> "SYM_D0C7C1EE"
      [] name = <<"jin", "zhang", "xing", "tou", "tong">>
                                       -> "SYM_58554AC5"

\* analyze_symptoms: the keys of symptom_counter in insertion order, the
\* normalized names of the records with a non-empty symptom_name.
\* normalized[i][j] is the normalized name of record j of disease i.
analyze_symptoms(diseases_data, normalized) ==
    FirstOccurrences(
        Flatten([i \in 1..Len(diseases_data) |->
            LET named == SelectSeq([j \in 1..Len(diseases_data[i].symptoms) |-> j],
                             LAMBDA j : diseases_data[i].symptoms[j].symptom_name # <<>>)
            IN  [k \in 1..Len(named) |-> normalized[i][named[k]]]]))

\* Ids given by order of arrival: the n-th new name gets the n-th id.
UnifiedIdsByArrival(ids, names) ==
    LET fresh == SelectSeq(names, LAMBDA n : \A k \in 1..Len(ids) : ids[k].name # n)
        nth   == <<"SYM_00000001", "SYM_00000002", "SYM_00000003">>
    IN  ids \o [k \in 1..Len(fresh) |-> [name |-> fresh[k], id |-> nth[Len(ids) + k]]]

\* unified_symptom_ids after the first loop of normalize_disease_data: every
\* name that is not a key yet gets its generated id.
UnifiedIds(ids, names) ==
    LET fresh == SelectSeq(names, LAMBDA n : \A k \in 1..Len(ids) : ids[k].name # n)
    IN  ids \o [k \in 1..Len(fresh) |->
                   [name |-> fresh[k], id |-> _generate_symptom_id(fresh[k])]]

\* self.unified_symptom_ids.get(name): <<>> is None.
unified_id(ids, name) ==
    LET found == SelectSeq(ids, LAMBDA e : e.name = name)
    IN  IF found = <<>> THEN <<>> ELSE <<found[1].id>>

\* updated_symptoms of one disease: the records whose normalized name has an
\* id, each with its symptom_id and normalized_name.
updated_symptoms(ids, disease, names) ==
    LET kept == SelectSeq([j \in 1..Len(disease.symptoms) |-> j],
                          LAMBDA j : unified_id(ids, names[j]) # <<>>)
    IN  [k \in 1..Len(kept) |->
            [symptom_name    |-> disease.symptoms[kept[k]].symptom_name,
             specificity     |-> disease.symptoms[kept[k]].specificity,
             symptom_id      |-> unified_id(ids, names[kept[k]])[1],
             normalized_name |-> names[kept[k]]]]

\* _normalize_symptom_name of every record: normalized[i][j] is the
\* normalized name of record j of disease i.
NormalizedNames(diseases_data) ==
    [i \in 1..Len(diseases_data) |->
        [j \in 1..Len(diseases_data[i].symptoms) |->
            _normalize_symptom_name(diseases_data[i].symptoms[j].symptom_name)]]

\* updated_diseases: every disease with its updated_symptoms.
UpdatedDiseases(ids, diseases_data, normalized) ==
    [i \in 1..Len(diseases_data) |->
        [diseases_data[i] EXCEPT
            !.symptoms = updated_symptoms(ids, diseases_data[i], normalized[i])]]

\* Only the first kept record of every disease is appended.
disease_infos_of_first_records(updated) ==
    Flatten([i \in 1..Len(updated) |->
        [j \in 1..(IF updated[i].symptoms = <<>> THEN 0 ELSE 1) |->
            [symptom_id   |-> updated[i].symptoms[j].symptom_id,
             disease_id   |-> updated[i].disease_id,
             disease_name |-> updated[i].disease_name,
             specificity  |-> updated[i].symptoms[j].specificity]]])

\* The disease_info entries one call appends to self.symptom_to_diseases,
\* in append order: one for every kept record.
disease_infos(updated) ==
    Flatten([i \in 1..Len(updated) |->
        [j \in 1..Len(updated[i].symptoms) |->
            [symptom_id   |-> updated[i].symptoms[j].symptom_id,
             disease_id   |-> updated[i].disease_id,
             disease_name |-> updated[i].disease_name,
             specificity  |-> updated[i].symptoms[j].specificity]]])

\* The records of the caller's list are written in place.
InputUpdatedInPlace(diseases_data, updated) == updated

\* The caller's list after the call: the call writes to disease.copy() and
\* symptom.copy() and gives the copy of the disease a new symptom list, so
\* the records of the list are as they were.
CopiedInput(diseases_data, updated) == diseases_data

\* ImprovedSymptomNormalizer.normalize_disease_data (the same code as
\* SymptomNormalizer.normalize_disease_data).
normalize_disease_data(diseases_data) ==
    /\ builds < MaxBuilds
    /\ \E normalized \in { NormalizedNames(diseases_data) } :
        \E ids \in { UnifiedIds(unified_symptom_ids,
                                analyze_symptoms(diseases_data, normalized)) } :
        \E updated \in { UpdatedDiseases(ids, diseases_data, normalized) } :
            /\ unified_symptom_ids' = ids
            /\ updated_diseases' = updated
            /\ symptom_index' = symptom_index \o disease_infos(updated)
            /\ input_diseases' = IF input_diseases = diseases_data
                                 THEN CopiedInput(diseases_data, updated)
                                 ELSE input_diseases
    /\ builds' = builds + 1
    /\ UNCHANGED <<agent_vars, session_vars, tool_vars, semantic_groups, symptom_name, normalized_name,
                   renormalized_name, reverse_mapping>>

\* The list as it is, a disease as often as it was appended.
unique_diseases_kept(diseases) == diseases

RECURSIVE unique_diseases_last_wins(_)
\* The last entry of every disease_id replaces the earlier ones.
unique_diseases_last_wins(diseases) ==
    IF diseases = <<>> THEN <<>>
    ELSE LET same == SelectSeq(diseases,
                               LAMBDA d : d.disease_id = Head(diseases).disease_id)
         IN  <<same[Len(same)]>> \o
             unique_diseases_last_wins(SelectSeq(Tail(diseases),
                 LAMBDA d : d.disease_id # Head(diseases).disease_id))

RECURSIVE unique_diseases(_)
\* unique_diseases of create_reverse_mapping: the first entry of every
\* disease_id, in order.
unique_diseases(diseases) ==
    IF diseases = <<>> THEN <<>>
    ELSE <<Head(diseases)>> \o
         unique_diseases(SelectSeq(Tail(diseases),
                                   LAMBDA d : d.disease_id # Head(diseases).disease_id))

\* The reverse mapping with disease_count counting every appended
\* disease_info of the symptom id.
ReverseMappingCountingAppends(index, ids) ==
    LET sids == FirstOccurrences([k \in 1..Len(index) |-> index[k].symptom_id])
        Entry(sid) ==
            LET appended == SelectSeq(index, LAMBDA e : e.symptom_id = sid)
                diseases == unique_diseases(appended)
                names == SelectSeq(ids, LAMBDA e : e.id = sid)
            IN  [symptom_id    |-> sid,
                 symptom_name  |-> IF names = <<>> THEN <<>> ELSE names[1].name,
                 disease_count |-> Len(appended),
                 diseases      |-> [k \in 1..Len(diseases) |->
                                       [disease_id   |-> diseases[k].disease_id,
                                        disease_name |-> diseases[k].disease_name,
                                        specificity  |-> diseases[k].specificity]]]
    IN  [n \in 1..Len(sids) |-> Entry(sids[n])]

\* ImprovedSymptomNormalizer.create_reverse_mapping (the same code as
\* SymptomNormalizer.create_reverse_mapping) over self.symptom_to_diseases
\* and self.unified_symptom_ids: one entry per symptom id.
ReverseMapping(index, ids) ==
    LET sids == FirstOccurrences([k \in 1..Len(index) |-> index[k].symptom_id])
        Entry(sid) ==
            LET diseases == unique_diseases(
                    SelectSeq(index, LAMBDA e : e.symptom_id = sid))
                names == SelectSeq(ids, LAMBDA e : e.id = sid)
            IN  [symptom_id    |-> sid,
                 symptom_name  |-> IF names = <<>> THEN <<>> ELSE names[1].name,
                 disease_count |-> Len(diseases),
                 diseases      |-> [k \in 1..Len(diseases) |->
                                       [disease_id   |-> diseases[k].disease_id,
                                        disease_name |-> diseases[k].disease_name,
                                        specificity  |-> diseases[k].specificity]]]
    IN  [n \in 1..Len(sids) |-> Entry(sids[n])]

\* create_reverse_mapping of this normalizer.
create_reverse_mapping == ReverseMapping(symptom_index, unified_symptom_ids)

\* A new ImprovedSymptomNormalizer (SymptomNormalizer runs the same build
\* code over its own table).
InitBuild ==
    /\ NoAgent
    /\ semantic_groups = _create_detailed_semantic_groups
    /\ symptom_name = <<>>
    /\ normalized_name = <<>>
    /\ renormalized_name = <<>>
    /\ unified_symptom_ids = <<>>
    /\ symptom_index = <<>>
    /\ updated_diseases = <<>>
    /\ reverse_mapping = <<>>
    /\ builds = 0
    /\ input_diseases = <<>>

\* A build that is followed by another one reads at most MaxEarlierDiseases
\* diseases.
MaxEarlierDiseases == 1

\* Builds of any corpora on one normalizer.
NormalizeDiseaseData ==
    \E diseases_data \in Corpora :
        /\ builds + 1 < MaxBuilds => Len(diseases_data) <= MaxEarlierDiseases
        /\ normalize_disease_data(diseases_data)

CreateReverseMapping ==
    /\ reverse_mapping' = create_reverse_mapping
    /\ UNCHANGED <<agent_vars, session_vars, tool_vars, semantic_groups, symptom_name, normalized_name,
                   renormalized_name, unified_symptom_ids, symptom_index,
                   updated_diseases, builds, input_diseases>>

NextBuild == NormalizeDiseaseData \/ CreateReverseMapping

SpecBuild == InitBuild /\ [][NextBuild]_vars

\* main: the diseases of the input file are read, and a new normalizer
\* builds from them; the build may be run again on the same normalizer.
InitMain ==
    /\ NoAgent
    /\ semantic_groups = _create_detailed_semantic_groups
    /\ symptom_name = <<>>
    /\ normalized_name = <<>>
    /\ renormalized_name = <<>>
    /\ unified_symptom_ids = <<>>
    /\ symptom_index = <<>>
    /\ updated_diseases = <<>>
    /\ reverse_mapping = <<>>
    /\ builds = 0
    /\ input_diseases \in Corpora

NormalizeInputDiseases == normalize_disease_data(input_diseases)

NextMain == NormalizeInputDiseases \/ CreateReverseMapping

SpecMain == InitMain /\ [][NextMain]_vars

(***************************************************************************)
(* ParallelDiseaseSymptomProcessor: batches and their files                *)
(***************************************************************************)

\* The input file lists at most MaxDiseases diseases, a batch holds at most
\* MaxBatchSize of them, and the processing is started at most MaxRuns times.
MaxDiseases == 3
MaxBatchSize == 2
MaxRuns == 3

\* The orders a list can be given in.
Reorderings(list) ==
    { [k \in 1..Len(list) |-> list[f[k]]] :
        f \in { g \in [1..Len(list) -> 1..Len(list)] :
                  \A i, j \in 1..Len(list) : i # j => g[i] # g[j] } }

\* data['疾病库'] of the input file: the k-th disease has the id k.
InputFiles == { [k \in 1..n |-> k] : n \in 1..MaxDiseases }

\* get_all_processed_disease_ids: the ids of the diseases in the batch
\* files of the working directory.
get_all_processed_disease_ids ==
    UNION { { batch_files[n][k] : k \in 1..Len(batch_files[n]) } :
            n \in DOMAIN batch_files }

\* save_results(processed_diseases, "batch_%03d_processed_diseases.json"): the
\* file of that number is created or overwritten.
save_results(processed_diseases, batch_num) ==
    [n \in (DOMAIN batch_files) \cup {batch_num} |->
        IF n = batch_num THEN processed_diseases ELSE batch_files[n]]

\* A working directory without batch files, an input file and a batch size.
InitBatches ==
    /\ disease_db = <<>>
    /\ db_file = "ok"
    /\ IdleAgent
    /\ NoSessions
    /\ NoNormalizer
    /\ NoRisks
    /\ NoGeneratedCode
    /\ all_diseases \in InputFiles
    /\ batch_size \in 1..MaxBatchSize
    /\ batch_files = <<>>
    /\ remaining_diseases = <<>>
    /\ batch_start = 0
    /\ run_state = "idle"
    /\ runs = 0
    /\ NoPipeline

\* process_diseases_parallel up to its loop: the diseases whose id is in no
\* batch file remain; with none remaining the call returns.
StartProcessing ==
    /\ run_state # "running"
    /\ runs < MaxRuns
    /\ runs' = runs + 1
    /\ \E remaining \in { SelectSeq(all_diseases,
                              LAMBDA d : d \notin get_all_processed_disease_ids) } :
          /\ remaining_diseases' = remaining
          /\ run_state' = IF remaining = <<>> THEN "completed" ELSE "running"
    /\ batch_start' = 0
    /\ UNCHANGED <<agent_vars, session_vars, normalizer_vars, risk_vars, code_vars, pipeline_vars,
                   all_diseases, batch_size, batch_files>>

\* One round of the loop: the next batch_size remaining diseases are
\* processed by the worker threads, their results are collected in the
\* order the threads complete, and the batch is saved under its number.
ProcessBatch ==
    /\ run_state = "running"
    /\ \E last \in { IF batch_start + batch_size < Len(remaining_diseases)
                     THEN batch_start + batch_size ELSE Len(remaining_diseases) } :
       \E results \in Reorderings(SubSeq(remaining_diseases, batch_start + 1, last)) :
          /\ batch_files' = save_results(results, (batch_start \div batch_size) + 1)
    /\ batch_start' = batch_start + batch_size
    /\ run_state' = IF batch_start + batch_size < Len(remaining_diseases)
                    THEN "running" ELSE "completed"
    /\ UNCHANGED <<agent_vars, session_vars, normalizer_vars, risk_vars, code_vars, pipeline_vars,
                   all_diseases, batch_size, remaining_diseases, runs>>

\* The process is stopped before the next batch is saved.
Interrupt ==
    /\ run_state = "running"
    /\ run_state' = "interrupted"
    /\ UNCHANGED <<agent_vars, session_vars, normalizer_vars, risk_vars, code_vars, pipeline_vars,
                   all_diseases, batch_size, batch_files, remaining_diseases,
                   batch_start, runs>>

NextBatches == StartProcessing \/ ProcessBatch \/ Interrupt

SpecBatches == InitBatches /\ [][NextBatches]_vars

(***************************************************************************)
(* ParallelDiseaseSymptomProcessor: the worker threads of one batch        *)
(***************************************************************************)

\* A batch of the worker model holds at most MaxBatchDiseases diseases.
MaxBatchDiseases == 3

\* batch_diseases: records with a disease id, with or without the key
\* 疾病名称.
DiseaseBatches ==
    UNION { { [k \in 1..n |-> [disease_id |-> k, named |-> f[k], enriched |-> FALSE]] :
                f \in [1..n -> BOOLEAN] } :
            n \in 1..MaxBatchDiseases }

\* What parse_deepseek_response returns for the answer about a disease.
processed_disease(disease_data) ==
    [disease_id |-> disease_data.disease_id, named |-> TRUE, enriched |-> TRUE]

\* The only batch of a run is about to be processed.
InitWorkers ==
    /\ disease_db = <<>>
    /\ db_file = "ok"
    /\ IdleAgent
    /\ NoSessions
    /\ NoNormalizer
    /\ NoRisks
    /\ NoGeneratedCode
    /\ all_diseases \in DiseaseBatches
    /\ remaining_diseases = all_diseases
    /\ batch_size = Len(all_diseases)
    /\ batch_files = <<>>
    /\ batch_start = 0
    /\ run_state = "running"
    /\ runs = 1
    /\ futures = <<>>
    /\ batch_results = <<>>
    /\ api_call = <<>>
    /\ merged_file = <<>>

\* executor.submit(self.process_single_disease, disease) for every disease
\* of the batch.
SubmitBatch ==
    /\ run_state = "running"
    /\ futures = <<>>
    /\ futures' = [k \in 1..Len(remaining_diseases) |->
                      [position |-> "submitted", collected |-> FALSE]]
    /\ UNCHANGED <<agent_vars, session_vars, normalizer_vars, risk_vars, batch_vars,
                   code_vars, batch_results, api_call, merged_file>>

\* process_single_disease up to the response: disease_data['疾病名称']
\* raises for a record without the key; call_deepseek_api returns the
\* content or None, and without a response the worker returns disease_data.
WorkerCallsApi ==
    \E k \in 1..Len(futures) :
       /\ futures[k].position = "submitted"
       /\ \E response \in BOOLEAN :
             futures' = [futures EXCEPT ![k].position =
                            IF ~remaining_diseases[k].named THEN "raised"
                            ELSE IF response THEN "responded"
                            ELSE "returned_disease_data"]
       /\ UNCHANGED <<agent_vars, session_vars, normalizer_vars, risk_vars, batch_vars,
                      code_vars, batch_results, api_call, merged_file>>

\* process_single_disease after the response: parse_deepseek_response gives
\* the processed disease, or None and the worker returns disease_data.
WorkerParses ==
    \E k \in 1..Len(futures) :
       /\ futures[k].position = "responded"
       /\ \E parsed \in BOOLEAN :
             futures' = [futures EXCEPT ![k].position =
                            IF parsed THEN "returned_processed_disease"
                            ELSE "returned_disease_data"]
       /\ UNCHANGED <<agent_vars, session_vars, normalizer_vars, risk_vars, batch_vars,
                      code_vars, batch_results, api_call, merged_file>>

\* One round of the as_completed loop of the main thread: the result of a
\* finished future is appended; when future.result() raises, the handler
\* prints disease['疾病名称'] and appends the disease, and a KeyError of the
\* print ends process_diseases_parallel.
CollectResult ==
    \E k \in 1..Len(futures) :
       /\ run_state = "running"
       /\ ~futures[k].collected
       /\ futures[k].position \in {"returned_processed_disease", "returned_disease_data",
                                   "raised"}
       /\ futures' = [futures EXCEPT ![k].collected = TRUE]
       /\ IF futures[k].position = "raised" /\ ~remaining_diseases[k].named
          THEN /\ run_state' = "crashed"
               /\ UNCHANGED batch_results
          ELSE /\ batch_results' = Append(batch_results,
                      IF futures[k].position = "returned_processed_disease"
                      THEN processed_disease(remaining_diseases[k])
                      ELSE remaining_diseases[k])
               /\ UNCHANGED run_state
       /\ UNCHANGED <<agent_vars, session_vars, normalizer_vars, risk_vars, code_vars,
                      all_diseases, batch_size, batch_files, remaining_diseases,
                      batch_start, runs, api_call, merged_file>>

\* After the loop: save_results(batch_results, batch_output_file).
SaveBatchResults ==
    /\ run_state = "running"
    /\ futures # <<>>
    /\ \A k \in 1..Len(futures) : futures[k].collected
    /\ batch_files' = save_results(batch_results, (batch_start \div batch_size) + 1)
    /\ batch_start' = batch_start + batch_size
    /\ run_state' = "completed"
    /\ UNCHANGED <<agent_vars, session_vars, normalizer_vars, risk_vars, code_vars,
                   pipeline_vars, all_diseases, batch_size, remaining_diseases, runs>>

NextWorkers ==
    \/ SubmitBatch
    \/ WorkerCallsApi
    \/ WorkerParses
    \/ CollectResult
    \/ SaveBatchResults

SpecWorkers == InitWorkers /\ [][NextWorkers]_vars

(***************************************************************************)
(* ParallelDiseaseSymptomProcessor.call_deepseek_api                       *)
(***************************************************************************)

\* call_deepseek_api is called with max_retries up to MaxRetries.
MaxRetries == 4

\* What an attempt can end in: the content of the response, or an exception
\* of create_prompt (no request is made), of requests.post, of
\* raise_for_status, or of reading the response.
RequestOutcomes == {"content", "no_prompt", "timeout", "http_error", "malformed"}

\* The call after a request that failed, waiting after every failure.
after_attempt_always_waiting(call, outcome) ==
    LET attempt == Len(call.attempts)
        made == Append(call.attempts,
                       [timeout |-> 30 + attempt * 10, outcome |-> outcome])
    IN  IF outcome = "content"
        THEN [call EXCEPT !.attempts = made, !.position = "returned",
                          !.returned = "content"]
        ELSE [call EXCEPT !.attempts = made, !.position = "sleeping",
                          !.waits = Append(call.waits, (attempt + 1) * 2)]

\* One round of the loop of call_deepseek_api: the request is made with the
\* timeout of the attempt; its content is returned, or after an exception
\* the call sleeps for the wait time of the attempt, or returns None after
\* the last attempt.
after_attempt(call, outcome) ==
    LET attempt == Len(call.attempts)
        made == Append(call.attempts,
                       [timeout |-> 30 + attempt * 10, outcome |-> outcome])
    IN  IF outcome = "content"
        THEN [call EXCEPT !.attempts = made, !.position = "returned",
                          !.returned = "content"]
        ELSE IF attempt < call.max_retries - 1
        THEN [call EXCEPT !.attempts = made, !.position = "sleeping",
                          !.waits = Append(call.waits, (attempt + 1) * 2)]
        ELSE [call EXCEPT !.attempts = made, !.position = "returned",
                          !.returned = "None"]

\* call_deepseek_api(disease_data, max_retries) has been called.
InitApi ==
    /\ disease_db = <<>>
    /\ db_file = "ok"
    /\ IdleAgent
    /\ NoSessions
    /\ NoNormalizer
    /\ NoRisks
    /\ NoBatches
    /\ NoGeneratedCode
    /\ futures = <<>>
    /\ batch_results = <<>>
    /\ merged_file = <<>>
    /\ \E max_retries \in 0..MaxRetries :
          api_call = [max_retries |-> max_retries, attempts |-> <<>>, waits |-> <<>>,
                      position |-> "loop", returned |-> "nothing"]

\* for attempt in range(max_retries): one request.
Attempt ==
    /\ api_call.position = "loop"
    /\ Len(api_call.attempts) < api_call.max_retries
    /\ \E outcome \in RequestOutcomes : api_call' = after_attempt(api_call, outcome)
    /\ UNCHANGED <<agent_vars, session_vars, normalizer_vars, risk_vars, batch_vars,
                   code_vars, futures, batch_results, merged_file>>

\* time.sleep(wait_time) is over.
WakeUp ==
    /\ api_call.position = "sleeping"
    /\ api_call' = [api_call EXCEPT !.position = "loop"]
    /\ UNCHANGED <<agent_vars, session_vars, normalizer_vars, risk_vars, batch_vars,
                   code_vars, futures, batch_results, merged_file>>

\* range(max_retries) is exhausted: the function ends without a return
\* statement.
LoopEnds ==
    /\ api_call.position = "loop"
    /\ Len(api_call.attempts) >= api_call.max_retries
    /\ api_call' = [api_call EXCEPT !.position = "returned", !.returned = "None"]
    /\ UNCHANGED <<agent_vars, session_vars, normalizer_vars, risk_vars, batch_vars,
                   code_vars, futures, batch_results, merged_file>>

NextApi == Attempt \/ WakeUp \/ LoopEnds

SpecApi == InitApi /\ [][NextApi]_vars

\* The thread of the call is scheduled as long as it can take a step.
FairSpecApi == SpecApi /\ WF_vars(NextApi)

(***************************************************************************)
(* merge_batches.py                                                        *)
(***************************************************************************)

\* The working directory holds at most MaxMergeFiles batch files of at most
\* MaxFileRecords records.
MaxMergeFiles == 3
MaxFileRecords == 2

\* The records of the batch files: disease.get('疾病ID') (None when the
\* record has no id) and what tells two records of one disease apart.
MergeRecords ==
    [disease_id : {"D001", "D002", None}, version : {"a", "b"}]

\* What a batch file holds: the list data.get('疾病库', []) of a file that
\* json.load can read, or a file whose reading raises.
FileContents ==
    {[readable |-> FALSE, diseases |-> <<>>]}
    \cup
    { [readable |-> TRUE, diseases |-> l] :
        l \in UNION { [1..n -> MergeRecords] : n \in 0..MaxFileRecords } }

\* The batch files of the working directory in the order of their sorted
\* names.
Directories == UNION { [1..n -> FileContents] : n \in 0..MaxMergeFiles }

\* all_diseases of merge_batch_files: the records of the files that can be
\* read, in file order.
merged_records(files) ==
    Flatten([n \in 1..Len(files) |->
                IF files[n].readable THEN files[n].diseases ELSE <<>>])

\* unique_diseases when a later record replaces an earlier one of its id.
merge_unique_diseases_last_wins(diseases) ==
    unique_diseases_last_wins(SelectSeq(diseases, LAMBDA d : d.disease_id # None))

\* unique_diseases of merge_batch_files: the first record of every disease
\* id, the records without an id left out.
merge_unique_diseases(diseases) ==
    unique_diseases(SelectSeq(diseases, LAMBDA d : d.disease_id # None))

\* merge_batch_files: the content of the output file, <<>> when the
\* function returns without writing it.
merge_batch_files(files) ==
    IF files = <<>> \/ merged_records(files) = <<>> THEN <<>>
    ELSE <<merge_unique_diseases(merged_records(files))>>

\* A working directory with batch files and no merged file.
InitMerge ==
    /\ disease_db = <<>>
    /\ db_file = "ok"
    /\ IdleAgent
    /\ NoSessions
    /\ NoNormalizer
    /\ NoRisks
    /\ NoGeneratedCode
    /\ NoPipeline
    /\ all_diseases = <<>>
    /\ batch_size = 1
    /\ batch_files \in Directories
    /\ remaining_diseases = <<>>
    /\ batch_start = 0
    /\ run_state = "idle"
    /\ runs = 0

\* merge_batch_files() is run in the working directory.
MergeBatchFiles ==
    /\ runs < MaxRuns
    /\ runs' = runs + 1
    /\ merged_file' = IF merge_batch_files(batch_files) = <<>> THEN merged_file
                      ELSE merge_batch_files(batch_files)
    /\ UNCHANGED <<agent_vars, session_vars, normalizer_vars, risk_vars, code_vars,
                   futures, batch_results, api_call, all_diseases, batch_size,
                   batch_files, remaining_diseases, batch_start, run_state>>

NextMerge == MergeBatchFiles

SpecMerge == InitMerge /\ [][NextMerge]_vars

(***************************************************************************)
(* COTCAgent of cotc_agent.py: the temporary files of generated code       *)
(***************************************************************************)

\* At most MaxFiles temporary files are created.
MaxFiles == 4

\* execute_generated_code(code, patient_data, context, save_temp_files):
\* the code is written to a new temporary file and executed; an exception
\* of the code becomes an error result; the file is unlinked in the finally
\* clause unless the parameter is set.  files are the files of the
\* temporary directory, created the number of files made so far.
execute_generated_code(files, created, code_runs, save) ==
    [result         |-> IF code_runs THEN "result" ELSE "error",
     temp_file_path |-> created + 1,
     files_created  |-> created + 1,
     temp_files     |-> IF save THEN files \cup {created + 1} ELSE files]

\* COTCAgent(DeepSeekConfig(save_temp_files = ...)) and an empty temporary
\* directory.
InitGeneratedCode ==
    /\ disease_db = <<>>
    /\ db_file = "ok"
    /\ IdleAgent
    /\ NoSessions
    /\ NoNormalizer
    /\ NoRisks
    /\ NoBatches
    /\ save_temp_files \in BOOLEAN
    /\ temp_files = {}
    /\ files_created = 0
    /\ analysis = [status |-> "none", temporal_analysis |-> "none",
                   detailed_analysis |-> "none", temp_file_paths |-> {}]
    /\ NoPipeline

\* process_user_query of cotc_agent.py: the temporal analysis code is asked
\* for and executed, then the advanced analysis code; a failed API call
\* raises.  Both calls of execute_generated_code leave save_temp_files at
\* its default.
ProcessGeneratedQuery ==
    /\ files_created + 2 <= MaxFiles
    /\ \E temporal_response, code_response, temporal_runs, analysis_runs \in BOOLEAN :
          IF ~temporal_response
          THEN /\ analysis' = [status |-> "raised", temporal_analysis |-> "none",
                               detailed_analysis |-> "none", temp_file_paths |-> {}]
               /\ UNCHANGED <<temp_files, files_created>>
          ELSE \E first \in { execute_generated_code(temp_files, files_created,
                                                     temporal_runs, FALSE) } :
               IF ~code_response
               THEN /\ analysis' = [status |-> "raised",
                                    temporal_analysis |-> first.result,
                                    detailed_analysis |-> "none",
                                    temp_file_paths |-> {first.temp_file_path}]
                    /\ temp_files' = first.temp_files
                    /\ files_created' = first.files_created
               ELSE \E second \in { execute_generated_code(first.temp_files,
                                        first.files_created, analysis_runs, FALSE) } :
                    /\ analysis' = [status |-> "returned",
                                    temporal_analysis |-> first.result,
                                    detailed_analysis |-> second.result,
                                    temp_file_paths |-> {first.temp_file_path,
                                                         second.temp_file_path}]
                    /\ temp_files' = second.temp_files
                    /\ files_created' = second.files_created
    /\ UNCHANGED <<agent_vars, session_vars, normalizer_vars, risk_vars, batch_vars, pipeline_vars,
                   save_temp_files>>

\* agent.execute_generated_code(code, patient_data, context, save) called by
\* the program that owns the agent.
ExecuteGeneratedCode ==
    /\ files_created + 1 <= MaxFiles
    /\ \E code_runs, save \in BOOLEAN :
       \E executed \in { execute_generated_code(temp_files, files_created,
                                                code_runs, save) } :
          /\ temp_files' = executed.temp_files
          /\ files_created' = executed.files_created
    /\ UNCHANGED <<agent_vars, session_vars, normalizer_vars, risk_vars, batch_vars, pipeline_vars,
                   save_temp_files, analysis>>

NextGeneratedCode == ProcessGeneratedQuery \/ ExecuteGeneratedCode

SpecGeneratedCode == InitGeneratedCode /\ [][NextGeneratedCode]_vars

(***************************************************************************)
(* Two sessions served by one agent                                        *)
(***************************************************************************)

\* Each of the two sessions has at most MaxSessionTurns turns.
MaxSessionTurns == 2

\* Steps 3 and 4 of a turn as a function of the agent's focus: the Dict the
\* turn returns and self.current_disease_focus after it.
Decided(db, profile, focus) ==
    LET disease_progress == find_potential_diseases(db, profile.confirmed_symptoms)
        perfect_matches ==
            SelectSeq(disease_progress, LAMBDA d : IsPerfect(d.match_percentage))
    IN  IF perfect_matches # <<>>
        THEN [patient_profile       |-> profile,
              result                |-> generate_final_diagnosis(perfect_matches[1], profile),
              current_disease_focus |-> focus]
        ELSE [patient_profile       |-> profile,
              result                |-> generate_verification_questions(disease_progress, profile),
              current_disease_focus |-> FocusAfterQuestions(disease_progress, focus)]

\* process_user_query(user_input, patient_profile) on an agent whose focus
\* is `focus`: the profile, the result and the focus after the call.
QueryTurn(db, input, profile, focus) ==
    Decided(db,
            [profile EXCEPT !.confirmed_symptoms =
                extend(@, extract_and_confirm_symptoms(input, profile))],
            focus)

\* process_user_response(user_response, patient_profile) on an agent whose
\* focus is `focus`.
ResponseTurn(db, user_response, profile, focus) ==
    Decided(db,
            [confirmed_symptoms |->
                 extend(profile.confirmed_symptoms,
                        analyze_user_response(user_response, focus)),
             lifestyle_factors  |->
                 LifestyleAfterResponse(user_response, profile.lifestyle_factors)],
            focus)

\* One agent, two new PatientProfiles.
InitSessions ==
    /\ disease_db \in DiseaseDatabases
    /\ db_file = "ok"
    /\ IdleAgent
    /\ NoSessions
    /\ NoNormalizer
    /\ NoTools

\* A turn of the first session; `alone` takes the same turn on an agent of
\* its own.
FirstSessionQuery ==
    \E input \in Utterances :
        /\ process_user_query(input)
        /\ alone' = QueryTurn(disease_db, input, alone.patient_profile,
                              alone.current_disease_focus)
        /\ UNCHANGED <<user_input, other_session>>

FirstSessionResponse ==
    \E user_response \in Utterances :
        /\ turns < MaxSessionTurns
        /\ process_user_response(user_response)
        /\ alone' = ResponseTurn(disease_db, user_response, alone.patient_profile,
                                 alone.current_disease_focus)
        /\ UNCHANGED <<user_input, other_session>>

\* A turn of the second session, with its own PatientProfile, on the agent
\* that serves the first.
OtherSessionQuery ==
    \E input \in Utterances :
        /\ other_session.turns = 0
        /\ \E turn \in { QueryTurn(disease_db, input, other_session.patient_profile,
                                   current_disease_focus) } :
              /\ other_session' = [patient_profile |-> turn.patient_profile, turns |-> 1]
              /\ current_disease_focus' = turn.current_disease_focus
        /\ UNCHANGED <<disease_db, patient_profile, verification_round, result,
                       user_input, turns, db_file, alone, normalizer_vars, tool_vars>>

OtherSessionResponse ==
    \E user_response \in Utterances :
        /\ other_session.turns >= 1
        /\ other_session.turns < MaxSessionTurns
        /\ \E turn \in { ResponseTurn(disease_db, user_response,
                                      other_session.patient_profile,
                                      current_disease_focus) } :
              /\ other_session' = [patient_profile |-> turn.patient_profile,
                                   turns |-> other_session.turns + 1]
              /\ current_disease_focus' = turn.current_disease_focus
        /\ UNCHANGED <<disease_db, patient_profile, verification_round, result,
                       user_input, turns, db_file, alone, normalizer_vars, tool_vars>>

NextSessions ==
    \/ FirstSessionQuery
    \/ FirstSessionResponse
    \/ OtherSessionQuery
    \/ OtherSessionResponse

SpecSessions == InitSessions /\ [][NextSessions]_vars

(***************************************************************************)
(* Loading the knowledge base                                              *)
(***************************************************************************)

\* What open and json.load of disease_db_path can meet.
DbFiles == {"ok", "missing", "unparseable"}

\* DiseaseMatcher.load_disease_database: the diseases of the file, or, after
\* any exception, those of {"疾病库": []}.
load_disease_database(file, diseases) ==
    IF file = "ok" THEN diseases ELSE <<>>

\* COTCAgent.__init__ over a knowledge base file in any condition.
InitLoad ==
    /\ db_file \in DbFiles
    /\ \E diseases \in DiseaseDatabases :
          disease_db = load_disease_database(db_file, diseases)
    /\ IdleAgent
    /\ NoSessions
    /\ NoNormalizer
    /\ NoTools

SpecLoad == InitLoad /\ [][Next]_vars

(***************************************************************************)
(* DiseaseMatcher of cotc_agent_enhanced.py                                *)
(***************************************************************************)

\* A patient of the enhanced agent has at most MaxSymptoms current symptoms.
MaxSymptoms == 2

\* PatientProfile.current_symptoms: names in any order, repeated or not.
PatientSymptoms == UNION { [1..n -> KBSymptoms] : n \in 0..MaxSymptoms }

\* calculate_disease_probability(patient_symptoms, max_diseases=5)
max_diseases == 5

\* DiseaseMatcher.calculate_disease_probability of cotc_agent_enhanced.py
\* (its build_symptom_mapping is the one of cotc_agent_final.py): the
\* DiseaseRisk list, without the reasoning text.
calculate_disease_probability(db, patient_symptoms) ==
    LET hits == Flatten([k \in 1..Len(patient_symptoms) |->
                    LET found == symptom_to_diseases(db, patient_symptoms[k])
                    IN  [h \in 1..Len(found) |->
                            [symptom      |-> patient_symptoms[k],
                             disease_id   |-> found[h].disease_id,
                             disease_name |-> found[h].disease_name]]])
        ids == FirstOccurrences([h \in 1..Len(hits) |-> hits[h].disease_id])
        Risk(id) ==
            LET mine    == SelectSeq(hits, LAMBDA h : h.disease_id = id)
                matched == [h \in 1..Len(mine) |-> mine[h].symptom]
                records == SelectSeq(db, LAMBDA d : d.disease_id = id)
                all     == IF records = <<>> THEN <<>>
                           ELSE [j \in 1..Len(records[Len(records)].symptoms) |->
                                    records[Len(records)].symptoms[j].symptom_name]
                probability == [num |-> Len(matched) * 100,
                                den |-> IF all = <<>> THEN 1 ELSE Len(all)]
            IN  [disease_id       |-> id,
                 disease_name     |-> mine[1].disease_name,
                 total_symptoms   |-> Len(all),
                 probability      |-> probability,
                 matched_symptoms |-> matched,
                 missing_symptoms |-> SelectSeq(all, LAMBDA x : ~InList(x, matched)),
                 extra_symptoms   |-> SelectSeq(matched, LAMBDA x : ~InList(x, all)),
                 confidence_level |->
                     IF probability.num >= 80 * probability.den THEN "high"
                     ELSE IF probability.num >= 60 * probability.den THEN "medium"
                     ELSE "low"]
        scored == SelectSeq([n \in 1..Len(ids) |-> Risk(ids[n])],
                            LAMBDA r : r.total_symptoms > 0)
        sorted == SortByPercentage(<<>>,
                      [n \in 1..Len(scored) |->
                          [match_percentage |-> scored[n].probability,
                           risk |-> scored[n]]])
    IN  Take([n \in 1..Len(sorted) |-> sorted[n].risk], max_diseases)

\* A DiseaseMatcher over a loaded knowledge base and a patient's symptoms.
InitRisk ==
    /\ disease_db \in DiseaseDatabases
    /\ db_file = "ok"
    /\ IdleAgent
    /\ NoSessions
    /\ NoNormalizer
    /\ current_symptoms \in PatientSymptoms
    /\ disease_risks = <<>>
    /\ NoBatches
    /\ NoGeneratedCode
    /\ NoPipeline

\* disease_risks = self.disease_matcher.calculate_disease_probability(
\*     patient_profile.current_symptoms)
CalculateDiseaseProbability ==
    /\ disease_risks' = calculate_disease_probability(disease_db, current_symptoms)
    /\ UNCHANGED <<agent_vars, session_vars, normalizer_vars, current_symptoms,
                   batch_vars, code_vars, pipeline_vars>>

NextRisk == CalculateDiseaseProbability

SpecRisk == InitRisk /\ [][NextRisk]_vars

(***************************************************************************)
(* COTCAgent of cotc_agent_enhanced.py                                     *)
(***************************************************************************)

\* Queries of one patient served by the enhanced agent.
MaxEnhancedQueries == 2

\* symptom_mapping of extract_symptoms_from_input: the entries whose key an
\* utterance can hold.
enhanced_symptom_mapping ==
    << [user_symptom |-> TouTeng,   medical_symptoms |-> <<TouTong, TouTeng>>],
       [user_symptom |-> TouTong,   medical_symptoms |-> <<TouTong, TouTeng>>],
       [user_symptom |-> XiongMen,  medical_symptoms |-> <<XiongMen, XiongTong>>],
       [user_symptom |-> XiongTong, medical_symptoms |-> <<XiongMen, XiongTong>>] >>

\* generic_keywords of extract_symptoms_from_input made of the characters
\* of the utterances.
enhanced_generic_keywords == << <<"teng", "tong">>, <<"tong">>, <<"teng">> >>

\* set(extracted_symptoms): the medical symptoms of every key the input
\* contains, or else the generic keywords it contains.
extracted_symptoms(input) ==
    LET mapped == UNION { Range(enhanced_symptom_mapping[k].medical_symptoms) :
                          k \in { n \in 1..Len(enhanced_symptom_mapping) :
                                    Contains(input, enhanced_symptom_mapping[n].user_symptom) } }
    IN  IF mapped # {} THEN mapped
        ELSE { w \in Range(enhanced_generic_keywords) : Contains(input, w) }

\* extract_symptoms_from_input: list(set(extracted_symptoms)), in one of
\* the orders the iteration of the set can have.
extract_symptoms_from_input(input) ==
    LET symptoms == extracted_symptoms(input)
    IN  { l \in [1..Cardinality(symptoms) -> symptoms] :
            \A i, j \in 1..Cardinality(symptoms) : i # j => l[i] # l[j] }

\* A new enhanced agent and a new PatientProfile without current symptoms.
InitEnhanced ==
    /\ disease_db \in DiseaseDatabases
    /\ db_file = "ok"
    /\ IdleAgent
    /\ NoSessions
    /\ NoNormalizer
    /\ NoRisks
    /\ NoBatches
    /\ NoGeneratedCode
    /\ NoPipeline

\* COTCAgent.process_user_query of cotc_agent_enhanced.py: the extracted
\* symptoms are appended to the profile, the disease probabilities are
\* computed from all current symptoms, and chain_of_thought_verification
\* counts the round.
EnhancedProcessUserQuery ==
    /\ verification_round < MaxEnhancedQueries
    /\ \E input \in Utterances :
       \E initial_symptoms \in extract_symptoms_from_input(input) :
       \E symptoms \in { current_symptoms \o initial_symptoms } :
          /\ current_symptoms' = symptoms
          /\ disease_risks' = calculate_disease_probability(disease_db, symptoms)
    /\ verification_round' = verification_round + 1
    /\ UNCHANGED <<disease_db, patient_profile, current_disease_focus, result,
                   user_input, turns, db_file, session_vars, normalizer_vars,
                   batch_vars, code_vars, pipeline_vars>>

NextEnhanced == EnhancedProcessUserQuery

SpecEnhanced == InitEnhanced /\ [][NextEnhanced]_vars

(***************************************************************************)
(* C1 - C10                                                                *)
(***************************************************************************)

\* C1: a session that has had max_verification_rounds turns or more is in a
\* terminal outcome (diagnosed or inconclusive): the turn with that number
\* and every later one returns no verification questions.
C1_TerminalWithinMaxRounds ==
    turns >= max_verification_rounds => IsDiagnosed(result) \/ IsInconclusive(result)

\* C2: the diagnosed and the inconclusive outcome are terminal: after a turn
\* returned one of them, the next turn returns the same outcome (the same
\* status and, for a diagnosis, the same disease).
C2_TerminalOutcomesStay ==
    [][ (IsDiagnosed(result) \/ IsInconclusive(result)) =>
            /\ result'.status = result.status
            /\ DiagnosedName(result') = DiagnosedName(result) ]_vars

\* C3: a diagnosis of disease D is returned only when every symptom the
\* knowledge base lists for D is among the patient's confirmed symptoms.
C3_DiagnosisOnlyAtFullMatch ==
    IsDiagnosed(result) =>
        \E i \in 1..Len(disease_db) :
            /\ disease_db[i].disease_name = DiagnosedName(result)
            /\ ListedSymptoms(disease_db[i]) \subseteq ConfirmedSet

\* C4: patient_profile.confirmed_symptoms holds each symptom name at most once.
C4_NoDuplicateConfirmed ==
    \A i, j \in 1..Len(patient_profile.confirmed_symptoms) :
        i # j => patient_profile.confirmed_symptoms[i].symptom_name
                 # patient_profile.confirmed_symptoms[j].symptom_name

\* C5: for every candidate disease of the current profile, the reported
\* confirmed count is the size of (disease symptoms intersected with the
\* confirmed set) and match_percentage is 100 * that count / the number of
\* symptoms of the disease.
C5_CountIsIntersection ==
    LET progress == find_potential_diseases(disease_db, patient_profile.confirmed_symptoms)
    IN  \A n \in 1..Len(progress) :
            \A i \in 1..Len(disease_db) :
                disease_db[i].disease_id = progress[n].disease_id =>
                    LET listed == ListedSymptoms(disease_db[i])
                        common == Cardinality(listed \cap ConfirmedSet)
                    IN  /\ progress[n].confirmed_symptoms = common
                        /\ progress[n].match_percentage.num * Cardinality(listed)
                               = 100 * common * progress[n].match_percentage.den

\* The ranking the specification states: match_percentage descending, then
\* confirmed count descending, then disease id ascending.
RankedBefore(p, q) ==
    \/ PctLess(q.match_percentage, p.match_percentage)
    \/ /\ PctEqual(p.match_percentage, q.match_percentage)
       /\ \/ p.confirmed_symptoms > q.confirmed_symptoms
          \/ /\ p.confirmed_symptoms = q.confirmed_symptoms
             /\ IdRank(p.disease_id) < IdRank(q.disease_id)

\* The candidates that are first of the stated ranking.
TopRanked ==
    LET progress == find_potential_diseases(disease_db, patient_profile.confirmed_symptoms)
    IN  { p \in Range(progress) :
            \A q \in Range(progress) : q.disease_id # p.disease_id => RankedBefore(p, q) }

\* C6: the focus disease of a verification response and the disease named
\* in a diagnosis are the first of the stated ranking.
C6_FocusIsTopOfStatedRanking ==
    /\ IsAwaiting(result) =>
           \E p \in TopRanked : p.disease_id = result.focus_disease[1].disease_id
    /\ IsDiagnosed(result) =>
           \E p \in TopRanked : p.disease_name = DiagnosedName(result)

\* The match_percentage find_potential_diseases reports for disease `id`
\* under the confirmed list, 0 when the disease is not scored.
ScoreOf(confirmed_list, id) ==
    LET scored == SelectSeq(find_potential_diseases(disease_db, confirmed_list),
                            LAMBDA p : p.disease_id = id)
    IN  IF scored = <<>> THEN [num |-> 0, den |-> 1] ELSE scored[1].match_percentage

\* Whether find_potential_diseases scores disease `id` at all.
IsCandidate(confirmed_list, id) ==
    \E p \in Range(find_potential_diseases(disease_db, confirmed_list)) :
        p.disease_id = id

\* The confirmed list with one more confirmed symptom.
WithSymptom(s) ==
    Append(patient_profile.confirmed_symptoms, SymptomMatch(s, "user_input"))

\* C7: for the current profile and any one additional confirmed symptom s,
\* the match_percentage of a disease that lists s does not decrease, and the
\* match_percentage and the candidate status of a disease that does not list
\* s stay as they are.
C7_ScoringIsMonotonic ==
    \A s \in KBSymptoms \cup {ShiMian} :
        \A i \in 1..Len(disease_db) :
            LET id     == disease_db[i].disease_id
                before == ScoreOf(patient_profile.confirmed_symptoms, id)
                after  == ScoreOf(WithSymptom(s), id)
            IN  IF s \in ListedSymptoms(disease_db[i])
                THEN ~PctLess(after, before)
                ELSE /\ PctEqual(after, before)
                     /\ IsCandidate(WithSymptom(s), id)
                            = IsCandidate(patient_profile.confirmed_symptoms, id)

\* C7 witness: after a turn, a symptom not confirmed yet would raise the
\* score of a disease listing it while another candidate does not list it.
C7_Witness ==
    /\ turns >= 1
    /\ \E s \in KBSymptoms \ ConfirmedSet :
         \E i, j \in 1..Len(disease_db) :
            /\ s \in ListedSymptoms(disease_db[i])
            /\ s \notin ListedSymptoms(disease_db[j])
            /\ IsCandidate(patient_profile.confirmed_symptoms, disease_db[j].disease_id)
            /\ PctLess(ScoreOf(patient_profile.confirmed_symptoms, disease_db[i].disease_id),
                       ScoreOf(WithSymptom(s), disease_db[i].disease_id))

\* C8: every turn leaves the confirmed symptoms it found as a prefix of the
\* confirmed symptoms it leaves behind.
C8_ConfirmedIsAppendOnly ==
    [][ IsPrefix(patient_profile.confirmed_symptoms,
                 patient_profile'.confirmed_symptoms) ]_vars

\* C8 witness: a profile that grew in the first turn and in a later one.
C8_Witness ==
    /\ turns >= 2
    /\ Len(patient_profile.confirmed_symptoms) >= 2
    /\ patient_profile.confirmed_symptoms[1].confirmation_source = "user_input"
    /\ patient_profile.confirmed_symptoms[Len(patient_profile.confirmed_symptoms)]
           .confirmation_source = "user_confirmation"

\* The entries a step appends to the confirmed symptoms.
NewlyConfirmed ==
    { patient_profile'.confirmed_symptoms[k].symptom_name :
        k \in (Len(patient_profile.confirmed_symptoms) + 1)
                 ..Len(patient_profile'.confirmed_symptoms) }

\* C9: a follow-up turn confirms a missing symptom of the focus disease only
\* if the utterance contains the symptom name and an affirmation marker.
C9_AskedSymptomNeedsAffirmation ==
    [][ turns >= 1 =>
          \A m \in FocusMissing :
              m \in NewlyConfirmed =>
                  /\ Contains(user_input', m)
                  /\ \E marker \in {Shi, You, QueShi} : Contains(user_input', marker) ]_vars

\* C9 witness: a follow-up turn has confirmed a symptom that its utterance
\* names together with an affirmation marker.
C9_Witness ==
    /\ turns >= 2
    /\ LET last == patient_profile.confirmed_symptoms[Len(patient_profile.confirmed_symptoms)]
       IN  /\ patient_profile.confirmed_symptoms # <<>>
           /\ last.confirmation_source = "user_confirmation"
           /\ Contains(user_input, last.symptom_name)
           /\ Contains(user_input, You)

IntersectingIds ==
    { disease_db[i].disease_id : i \in
        { k \in 1..Len(disease_db) :
            ListedSymptoms(disease_db[k]) \cap ConfirmedSet # {} } }

\* The names of the stored diseases that list a confirmed symptom.
IntersectingNames ==
    { disease_db[i].disease_name : i \in
        { k \in 1..Len(disease_db) :
            ListedSymptoms(disease_db[k]) \cap ConfirmedSet # {} } }

\* C11: the diseases find_potential_diseases scores for the current profile
\* are exactly the stored diseases that list at least one confirmed symptom,
\* and the focus disease (of the response and of the agent) and the
\* diagnosed disease are among them.
C11_CandidatesAreIntersecting ==
    LET progress == find_potential_diseases(disease_db, patient_profile.confirmed_symptoms)
    IN  /\ { progress[n].disease_id : n \in 1..Len(progress) } = IntersectingIds
        /\ result.focus_disease # <<>> =>
               result.focus_disease[1].disease_id \in IntersectingIds
        /\ current_disease_focus # <<>> =>
               current_disease_focus[1].disease_id \in IntersectingIds
        /\ IsDiagnosed(result) => DiagnosedName(result) \in IntersectingNames

\* C11 witness: after a turn, one stored disease is a candidate and the other
\* lists no confirmed symptom and is not scored.
C11_Witness ==
    /\ turns >= 1
    /\ Len(disease_db) = 2
    /\ Cardinality(IntersectingIds) = 1
    /\ Len(find_potential_diseases(disease_db, patient_profile.confirmed_symptoms)) = 1
    /\ result.focus_disease # <<>> \/ IsDiagnosed(result)

\* The response asks the generic broadening questions: some questions, none
\* of them about a symptom of a disease.
AsksGenericQuestions(r) ==
    /\ r.questions # <<>>
    /\ \A q \in Range(r.questions) :
          q.symptom = <<>> /\ q.about \in {"describe", "onset", "severity"}

\* C12: after a turn that leaves no candidate disease for the updated
\* profile, the response is the inconclusive one, it asks the generic
\* broadening questions, and neither the response nor the agent has a focus
\* disease.
C12_EmptyCandidatesAreInconclusive ==
    (/\ turns >= 1
     /\ find_potential_diseases(disease_db, patient_profile.confirmed_symptoms) = <<>>)
    => /\ IsInconclusive(result)
       /\ AsksGenericQuestions(result)
       /\ result.focus_disease = <<>>
       /\ current_disease_focus = <<>>

\* C12 witness: a first turn and a follow-up turn both left the candidate
\* set empty, and the response is the inconclusive one with its questions.
C12_Witness ==
    /\ turns >= 2
    /\ find_potential_diseases(disease_db, patient_profile.confirmed_symptoms) = <<>>
    /\ IsInconclusive(result)
    /\ Len(result.questions) = 3

\* C13 as stated: a turn (first or follow-up) that adds no confirmed symptom
\* returns the inconclusive status with the generic questions and leaves
\* the patient profile as it was.
C13_NothingRecognizedIsInconclusive ==
    [][ Len(patient_profile'.confirmed_symptoms) = Len(patient_profile.confirmed_symptoms)
        => /\ IsInconclusive(result')
           /\ AsksGenericQuestions(result')
           /\ patient_profile' = patient_profile ]_vars

\* The symptoms the stored disease `id` lists that are not confirmed, in the
\* order the disease declares them.
MissingInDeclaredOrder(id) ==
    SelectSeq(get_disease_symptoms(disease_db, id), LAMBDA x : x \notin ConfirmedSet)

\* The questions are at most two: one about the first missing symptom of
\* disease `id` (when one is missing), then one lifestyle probe.
AsksFirstMissingAndLifestyle(questions, id) ==
    LET missing == MissingInDeclaredOrder(id)
        probe   == questions[Len(questions)]
    IN  /\ Len(questions) <= 2
        /\ questions # <<>>
        /\ probe.about \in {"diet", "stress", "sleep", "habits"}
        /\ probe.symptom = <<>>
        /\ missing # <<>> =>
               /\ Len(questions) = 2
               /\ questions[1] = [about |-> "symptom", symptom |-> missing[1]]

\* C14: in a verification response the focus disease is the first of the
\* stated ranking, and the questions are at most two: one about the first
\* missing symptom of the focus disease in declared order and one lifestyle
\* probe.
C14_FocusIsTopAndAsksTwo ==
    IsAwaiting(result) =>
        /\ \E p \in TopRanked : p.disease_id = result.focus_disease[1].disease_id
        /\ AsksFirstMissingAndLifestyle(result.questions,
                                        result.focus_disease[1].disease_id)

\* C15: verification_round is the number of turns the session has had: 0 at
\* the start and one more after every turn of either kind.
C15_RoundCountsTurns == verification_round = turns

(***************************************************************************)
(* C16 - C20                                                               *)
(***************************************************************************)

\* C16: normalizing the result of a normalization gives the same result.
C16_NormalizeIsIdempotent ==
    renormalized_name # <<>> => renormalized_name = normalized_name

\* The letters and digits among the characters.
IsAlphanumeric(c) == c = "a"

\* The reference of C17: the name without the characters that are neither
\* ideographs nor alphanumeric, replaced by the standard name of the first
\* group, in declared order, with a variant contained in it or containing
\* it, when there is such a group.
ReferenceNormalize(name) ==
    LET cleaned  == SelectSeq(name, LAMBDA c : IsIdeograph(c) \/ IsAlphanumeric(c))
        matching == MatchingGroups(cleaned)
    IN  IF matching # <<>> THEN matching[1].standard_name ELSE cleaned

\* C17: _normalize_symptom_name returns, for every raw name, what the
\* reference returns.
C17_NormalizeIsTheReference ==
    normalized_name # <<>> => normalized_name[1] = ReferenceNormalize(symptom_name)

\* C18: a variant listed in a group of the table normalizes to the standard
\* name of that group.
C18_VariantsGetTheirStandardName ==
    normalized_name # <<>> =>
        \A g \in 1..Len(semantic_groups) :
            symptom_name \in Range(semantic_groups[g].variants) =>
                normalized_name[1] = semantic_groups[g].standard_name

\* The symptom records of the knowledge base normalize_disease_data
\* returned, of all its diseases.
UpdatedRecords ==
    UNION { { [disease_id |-> updated_diseases[i].disease_id,
               record     |-> updated_diseases[i].symptoms[j]] :
                 j \in 1..Len(updated_diseases[i].symptoms) } :
            i \in 1..Len(updated_diseases) }

\* C19: in the returned knowledge base, records whose names normalize to
\* the same name carry the same symptom_id; that id is the value of
\* unified_symptom_ids for the name, and it is the id generated from the
\* name alone, whatever was built before and in whatever order.
C19_IdDependsOnNameOnly ==
    /\ \A r \in UpdatedRecords :
          LET name == _normalize_symptom_name(r.record.symptom_name)
          IN  /\ r.record.normalized_name = name
              /\ unified_id(unified_symptom_ids, name) = <<r.record.symptom_id>>
              /\ r.record.symptom_id = _generate_symptom_id(name)
    /\ \A r1, r2 \in UpdatedRecords :
          _normalize_symptom_name(r1.record.symptom_name)
              = _normalize_symptom_name(r2.record.symptom_name)
          => r1.record.symptom_id = r2.record.symptom_id
    /\ \A k \in 1..Len(unified_symptom_ids) :
          /\ unified_symptom_ids[k].id = _generate_symptom_id(unified_symptom_ids[k].name)
          /\ \A m \in 1..Len(unified_symptom_ids) :
                m # k => unified_symptom_ids[m].name # unified_symptom_ids[k].name

\* C19 witness: the second build returned two diseases; records of both
\* have different raw names with one normalized name and one id, and a
\* record with another normalized name has another id.
C19_Witness ==
    /\ builds = 2
    /\ \E r1, r2, r3 \in UpdatedRecords :
          /\ r1.disease_id # r2.disease_id
          /\ r1.record.symptom_name # r2.record.symptom_name
          /\ r1.record.normalized_name = r2.record.normalized_name
          /\ r1.record.symptom_id = r2.record.symptom_id
          /\ r3.record.normalized_name # r1.record.normalized_name
          /\ r3.record.symptom_id # r1.record.symptom_id

\* C20: every entry of the reverse mapping lists a disease id at most once
\* and its disease_count is the length of its list of diseases.
C20_ReverseEntriesAreDeduplicated ==
    \A n \in 1..Len(reverse_mapping) :
        /\ reverse_mapping[n].disease_count = Len(reverse_mapping[n].diseases)
        /\ \A i, j \in 1..Len(reverse_mapping[n].diseases) :
              i # j => reverse_mapping[n].diseases[i].disease_id
                       # reverse_mapping[n].diseases[j].disease_id

\* C20 witness: after two builds the reverse mapping has an entry with two
\* diseases for a symptom id that was appended more than twice.
C20_Witness ==
    /\ builds = 2
    /\ \E n \in 1..Len(reverse_mapping) :
          /\ reverse_mapping[n].disease_count = 2
          /\ Len(SelectSeq(symptom_index,
                     LAMBDA e : e.symptom_id = reverse_mapping[n].symptom_id)) > 2

(***************************************************************************)
(* C21 - C30                                                               *)
(***************************************************************************)

\* The entries of a reverse mapping under a symptom id.
EntriesOf(mapping, sid) ==
    { n \in 1..Len(mapping) : mapping[n].symptom_id = sid }

\* C21: in a reverse mapping created after the build, every record of every
\* disease of the returned knowledge base has exactly one entry under its
\* symptom_id, and that entry lists the disease's id exactly once.
C21_ReverseMappingRoundTrip ==
    (builds >= 1 /\ reverse_mapping = create_reverse_mapping) =>
        \A r \in UpdatedRecords :
            /\ Cardinality(EntriesOf(reverse_mapping, r.record.symptom_id)) = 1
            /\ \A n \in EntriesOf(reverse_mapping, r.record.symptom_id) :
                  Cardinality({ k \in 1..Len(reverse_mapping[n].diseases) :
                      reverse_mapping[n].diseases[k].disease_id = r.disease_id }) = 1

\* C21 witness: the mapping was created after a build of two diseases; one
\* of them has two records under one symptom id, and the entry of that id
\* lists both diseases.
C21_Witness ==
    /\ builds >= 1
    /\ reverse_mapping # <<>>
    /\ Len(updated_diseases) = 2
    /\ \E i \in 1..2 : \E n \in 1..Len(reverse_mapping) :
          /\ Len(updated_diseases[i].symptoms) = 2
          /\ updated_diseases[i].symptoms[1].symptom_id = reverse_mapping[n].symptom_id
          /\ updated_diseases[i].symptoms[2].symptom_id = reverse_mapping[n].symptom_id
          /\ reverse_mapping[n].disease_count = 2

\* C22: a raw disease record without a disease id is skipped by the build:
\* it is no disease of the returned knowledge base, no disease_info of it is
\* appended, and no entry of the reverse mapping lists it.
C22_RecordsWithoutIdAreSkipped ==
    /\ \A i \in 1..Len(updated_diseases) : updated_diseases[i].disease_id # None
    /\ \A k \in 1..Len(symptom_index) : symptom_index[k].disease_id # None
    /\ \A n \in 1..Len(reverse_mapping) :
          \A k \in 1..Len(reverse_mapping[n].diseases) :
              reverse_mapping[n].diseases[k].disease_id # None

\* The corpora with the diseases of diseases_data in any order and the
\* symptom records of each disease in any order.
ReorderedCorpora(diseases_data) ==
    UNION { { [i \in 1..Len(d) |-> [d[i] EXCEPT !.symptoms = choice[i]]] :
                choice \in { c \in [1..Len(d) -> UNION { Reorderings(d[i].symptoms) :
                                                           i \in 1..Len(d) }] :
                               \A i \in 1..Len(d) : c[i] \in Reorderings(d[i].symptoms) } } :
            d \in Reorderings(diseases_data) }

\* The reverse mapping main gets from a new normalizer for diseases_data.
MainReverseMapping(diseases_data) ==
    LET normalized == NormalizedNames(diseases_data)
        ids == UnifiedIds(<<>>, analyze_symptoms(diseases_data, normalized))
    IN  ReverseMapping(disease_infos(UpdatedDiseases(ids, diseases_data, normalized)), ids)

\* What an entry says apart from the order of its diseases.
EntryContent(entry) ==
    [symptom_id |-> entry.symptom_id, disease_count |-> entry.disease_count,
     diseases |-> Range(entry.diseases)]

\* C23: the reverse mapping of the first build holds, under every key, the
\* same set of (disease_id, disease_name, specificity) items and the same
\* disease_count as the reverse mapping a new normalizer builds from the
\* same diseases and symptom records given in any other order.
C23_BuildIsOrderIndependent ==
    (builds = 1 /\ reverse_mapping = create_reverse_mapping) =>
        \A reordered \in ReorderedCorpora(input_diseases) :
            { EntryContent(e) : e \in Range(MainReverseMapping(reordered)) }
                = { EntryContent(e) : e \in Range(reverse_mapping) }

\* C24: after the build ran once or twice on the same input, the reverse
\* mapping of the normalizer is the one a new normalizer builds from that
\* input in one run: the same keys in the same order, the same lists of
\* diseases in the same order, the same counts.
C24_RebuildGivesTheSameReverseMapping ==
    builds >= 1 =>
        /\ create_reverse_mapping = MainReverseMapping(input_diseases)
        /\ reverse_mapping # <<>> =>
               reverse_mapping = MainReverseMapping(input_diseases)

\* C24 witness: the reverse mapping was created after the second run on the
\* same normalizer; it has two entries, one of them with two diseases, and
\* every disease_info was appended twice.
C24_Witness ==
    /\ builds = 2
    /\ reverse_mapping = create_reverse_mapping
    /\ Len(reverse_mapping) = 2
    /\ \E n \in 1..2 : reverse_mapping[n].disease_count = 2
    /\ Len(symptom_index) = 2 * Len(disease_infos(updated_diseases))

\* C30: two different canonical names never have the same id: not two
\* standard names of the table, and not two names of unified_symptom_ids.
C30_IdsAreInjective ==
    /\ \A g, h \in 1..Len(semantic_groups) :
          semantic_groups[g].standard_name # semantic_groups[h].standard_name
          => _generate_symptom_id(semantic_groups[g].standard_name)
             # _generate_symptom_id(semantic_groups[h].standard_name)
    /\ \A k, m \in 1..Len(unified_symptom_ids) :
          unified_symptom_ids[k].name # unified_symptom_ids[m].name
          => unified_symptom_ids[k].id # unified_symptom_ids[m].id

\* The symptom names the knowledge base lists for a disease id.
ListedNames(id) == Range(get_disease_symptoms(disease_db, id))

\* C25: for every disease of the returned list, extra_symptoms holds the
\* patient's current symptoms that the disease does not list, and only
\* those.
C25_ExtraIsPatientMinusDisease ==
    \A n \in 1..Len(disease_risks) :
        Range(disease_risks[n].extra_symptoms)
            = Range(current_symptoms) \ ListedNames(disease_risks[n].disease_id)

\* C26: when the knowledge base file is missing or cannot be parsed, no
\* operation ever runs on a knowledge base: no turn returns a result.
C26_LoadFailureIsFatal ==
    db_file # "ok" => turns = 0 /\ result = NoResult

\* C27: whatever turns of the second session are interleaved, the first
\* session has the profile and the last response it has when it is served
\* alone.
C27_SessionsDoNotInterfere ==
    /\ patient_profile = alone.patient_profile
    /\ result = alone.result

\* C28: a run never removes a disease from the batch files, and when a run
\* completes every disease of the input file is in a batch file.
C28_ResumeKeepsAndCompletes ==
    [][ /\ get_all_processed_disease_ids \subseteq get_all_processed_disease_ids'
        /\ run_state' = "completed" =>
               \A k \in 1..Len(all_diseases) :
                   all_diseases[k] \in get_all_processed_disease_ids' ]_vars

\* C29: the temporary files of the code a query generated are deleted when
\* the query is over, on the success path and on the failure path, unless
\* save_temp_files is set in the agent's configuration, and then they exist.
C29_TempFilesFollowTheConfiguration ==
    /\ ~save_temp_files => analysis.temp_file_paths \cap temp_files = {}
    /\ save_temp_files => analysis.temp_file_paths \subseteq temp_files

(***************************************************************************)
(* C31 - C39                                                               *)
(***************************************************************************)

\* The disease_info entries accumulated under a symptom id for a disease,
\* in the order they were appended.
Accumulated(sid, did) ==
    SelectSeq(symptom_index, LAMBDA e : e.symptom_id = sid /\ e.disease_id = did)

\* C31: every entry of the reverse index lists a disease id once, with the
\* name and the specificity of the first disease_info accumulated for that
\* disease under the symptom id; the later ones are dropped unmerged.
C31_FirstAccumulatedEntryIsKept ==
    \A n \in 1..Len(reverse_mapping) :
        LET entry == reverse_mapping[n]
        IN  /\ \A i, j \in 1..Len(entry.diseases) :
                   i # j => entry.diseases[i].disease_id # entry.diseases[j].disease_id
            /\ \A k \in 1..Len(entry.diseases) :
                   LET first == Accumulated(entry.symptom_id,
                                            entry.diseases[k].disease_id)[1]
                   IN  entry.diseases[k] =
                           [disease_id   |-> first.disease_id,
                            disease_name |-> first.disease_name,
                            specificity  |-> first.specificity]

\* A disease accumulated twice under one symptom id, first not specific and
\* then specific, is listed as not specific.
C31_Witness ==
    \E n \in 1..Len(reverse_mapping) :
        \E k \in 1..Len(reverse_mapping[n].diseases) :
            LET acc == Accumulated(reverse_mapping[n].symptom_id,
                                   reverse_mapping[n].diseases[k].disease_id)
            IN  /\ Len(acc) >= 2
                /\ ~acc[1].specificity
                /\ acc[2].specificity
                /\ ~reverse_mapping[n].diseases[k].specificity

\* C32: a follow-up turn whose utterance denies a missing symptom of the
\* focus disease, the negation standing in front of the symptom name, does
\* not add that symptom to the confirmed symptoms.
C32_DeniedSymptomIsNotConfirmed ==
    [][ turns >= 1 =>
          \A m \in FocusMissing :
              Contains(user_input', MeiYou \o m) => m \notin NewlyConfirmed ]_vars

\* C33: every reported disease probability lies between 0 and 100, and no
\* matched_symptoms list holds a symptom twice.
C33_ProbabilityWithinBounds ==
    \A n \in 1..Len(disease_risks) :
        /\ disease_risks[n].probability.num >= 0
        /\ disease_risks[n].probability.num <= 100 * disease_risks[n].probability.den
        /\ \A i, j \in 1..Len(disease_risks[n].matched_symptoms) :
               i # j => disease_risks[n].matched_symptoms[i]
                            # disease_risks[n].matched_symptoms[j]

\* C34: the reverse mapping created after a build lists only diseases of
\* the input of that build, also when the normalizer built from another
\* input before.
C34_ReverseMappingOfLastInputOnly ==
    [][ builds' = builds =>
          \A n \in 1..Len(reverse_mapping') :
              \A k \in 1..Len(reverse_mapping'[n].diseases) :
                  \E i \in 1..Len(updated_diseases) :
                      updated_diseases[i].disease_id
                          = reverse_mapping'[n].diseases[k].disease_id ]_vars

\* C35: a record whose name is empty once blanks and punctuation are
\* removed is given no symptom id, and a disease is listed under a symptom
\* id only if one of its records with a name left normalizes to it.
C35_NamelessRecordGetsNoId ==
    /\ \A i \in 1..Len(updated_diseases) :
           \A j \in 1..Len(updated_diseases[i].symptoms) :
               cleaned_name(updated_diseases[i].symptoms[j].symptom_name) # <<>>
    /\ \A n \in 1..Len(reverse_mapping) :
           \A k \in 1..Len(reverse_mapping[n].diseases) :
               \E i \in 1..Len(input_diseases) :
                   /\ input_diseases[i].disease_id
                          = reverse_mapping[n].diseases[k].disease_id
                   /\ \E j \in 1..Len(input_diseases[i].symptoms) :
                          LET name == input_diseases[i].symptoms[j].symptom_name
                          IN  /\ cleaned_name(name) # <<>>
                              /\ _generate_symptom_id(_normalize_symptom_name(name))
                                     = reverse_mapping[n].symptom_id

C37_OneRecordPerDisease ==
    run_state # "running" =>
        /\ 1 \in DOMAIN batch_files
        /\ Len(batch_files[1]) = Len(remaining_diseases)
        /\ \A k \in 1..Len(remaining_diseases) :
               \E n \in 1..Len(batch_files[1]) :
                   batch_files[1][n] =
                       IF futures[k].position = "returned_processed_disease"
                       THEN processed_disease(remaining_diseases[k])
                       ELSE remaining_diseases[k]

\* The attempts of the call that failed.
FailedAttempts == SelectSeq(api_call.attempts, LAMBDA r : r.outcome # "content")

ReadableRecords ==
    Flatten([n \in 1..Len(batch_files) |->
                IF batch_files[n].readable THEN batch_files[n].diseases ELSE <<>>])

\* Those of the records that have an id.
IdentifiedRecords ==
    SelectSeq(ReadableRecords, LAMBDA d : d.disease_id # None)

\* C39: a merge writes the output file whenever a batch file that can be
\* read holds a record, unreadable files or not; the file holds each disease
\* id of those records once, with the first record of the id in the order of
\* the sorted file names, and no record without an id.
C39_MergeKeepsFirstRecordOfEachId ==
    [][ /\ merged_file' # <<>> <=> ReadableRecords # <<>>
        /\ merged_file' # <<>> =>
           /\ \A i, j \in 1..Len(merged_file'[1]) :
                  i # j => merged_file'[1][i].disease_id # merged_file'[1][j].disease_id
           /\ \A i \in 1..Len(merged_file'[1]) :
                  /\ merged_file'[1][i].disease_id # None
                  /\ merged_file'[1][i] =
                         SelectSeq(IdentifiedRecords,
                             LAMBDA d : d.disease_id = merged_file'[1][i].disease_id)[1]
           /\ \A k \in 1..Len(IdentifiedRecords) :
                  \E i \in 1..Len(merged_file'[1]) :
                      merged_file'[1][i].disease_id = IdentifiedRecords[k].disease_id
      ]_vars

\* A merge over an unreadable first file, a second file with D001 and a
\* record without an id, and a third file with another record of D001 kept
\* the record of the second file only.
C39_Witness ==
    /\ Len(batch_files) = 3
    /\ ~batch_files[1].readable
    /\ batch_files[2].diseases = <<[disease_id |-> "D001", version |-> "a"],
                                   [disease_id |-> None, version |-> "a"]>>
    /\ batch_files[3].diseases = <<[disease_id |-> "D001", version |-> "b"]>>
    /\ merged_file = <<<<[disease_id |-> "D001", version |-> "a"]>>>>

====
